---- MODULE Spec2Model ----
(***************************************************************************)
(* Streaming readers of polars_readstat.                                   *)
(*                                                                         *)
(*  - the chunk builder of the readstat crate (ReadStatData, handle_value, *)
(*    SeriesBuilder), driven value by value by the parser callbacks;       *)
(*  - the AnonymousScan orchestrator PolarsReadstat (polars_readstat_rs,   *)
(*    stream.rs) with its worker threads, Reader and ReadStatBackend;      *)
(*  - the Python-facing orchestrator PyPolarsReadstat                      *)
(*    (polars_readstat_bindings, pybindings.rs).                           *)
(*                                                                         *)
(* Option<T> is modelled as a sequence: None is <<>>, Some(x) is <<x>>.    *)
(* Indices are 0-based as in the source; sequences are 1-based, so the     *)
(* element of index i is s[i + 1].                                         *)
(***************************************************************************)
EXTENDS Integers, Sequences, FiniteSets, TLC

VARIABLES
    cb,        \* one chunk builder run at value granularity (facade, ReadStatData, parser position)
    reported,  \* history: the (row, var) pairs the parser reported as system-missing
    impl,      \* which orchestrator runs: "rs" (PolarsReadstat) or "py" (PyPolarsReadstat)
    cfg,       \* the options and the file the orchestrator was constructed with
    state,     \* Option<ScanState> / Option<StreamState>
    workers,   \* worker threads, by row partition index
    chan,      \* the mpsc channel from the workers to the orchestrator
    cpc,       \* consumer position: "idle" or "call" (inside next_batch)
    out,       \* history: what the next_batch calls returned, in order
    sent,      \* history: the Data messages the workers put on the channel, in order
    ctl        \* the consumer's control of the source: cancel() and drop

\* ctl is in both tuples: only cancel() and drop change it
cbVars   == <<cb, reported, ctl>>
scanVars == <<impl, cfg, state, workers, chan, cpc, out, sent, ctl>>
vars     == <<cb, reported, impl, cfg, state, workers, chan, cpc, out, sent, ctl>>

----------------------------------------------------------------------------
(* Bounds of the model *)

MaxRows     == 4    \* rows in the file
MaxChunk    == 2    \* chunk_size / size_hint
MaxThreads  == 2    \* thread budget
MaxProj     == 2    \* names in a projection
MaxAfterEnd == 2    \* next_batch calls made after the first "end" or error
CbMaxRows   == 3    \* rows in the file of the value-granularity run
MaxSchemaCalls == 2  \* schema() calls made during one scan
MaxVars     == 2    \* variables of the file whose schema is built
MaxQueries  == 4    \* capability flags asked of one facade
StratMaxChunk   == 3   \* chunk_size given to the partition planner
StratMaxRows    == 6   \* total_rows given to the partition planner
StratMaxCols    == 5   \* total_cols given to the partition planner
StratMaxThreads == 6   \* max_threads given to the partition planner
MaxWakeChunks == 2      \* chunks the producer of a ReadStatStreamer pushes
MaxWakeCalls == 4       \* next() calls on a ReadStatStreamer
PlanMaxThreads == 3     \* thread budget of the runs that only plan
MaxRetains == 2         \* outstanding retain_shared_mmap calls on one mapping

----------------------------------------------------------------------------
(* Option, arithmetic and sequence helpers *)

None == <<>>
Some(x) == <<x>>
Unwrap(o) == o[1]

Min(a, b) == IF a <= b THEN a ELSE b
Max(a, b) == IF a >= b THEN a ELSE b
SatSub(a, b) == IF a >= b THEN a - b ELSE 0
CeilDiv(a, b) == (a + b - 1) \div b

Range(s) == {s[i] : i \in DOMAIN s}
Take(s, n) == SubSeq(s, 1, Min(n, Len(s)))
Iota(lo, hi) == [i \in 1..SatSub(hi, lo) |-> lo + i - 1]   \* <<lo, ..., hi-1>>

RECURSIVE FilterMap(_, _)

----------------------------------------------------------------------------
(* The file: column names in file order, and its cells.  A cell delivered   *)
(* by the parser is either system-missing or the value of (row, var).      *)

FileCols == <<"a", "b", "z">>
Unknown  == "nope"

Null == [null |-> TRUE, r |-> 0, v |-> 0]
Val(r, v) == [null |-> FALSE, r |-> r, v |-> v]

\* Schema::index_of
IndexOf(schema, name) ==
    IF \E i \in DOMAIN schema : schema[i] = name
    THEN Some((CHOOSE i \in DOMAIN schema : schema[i] = name) - 1)
    ELSE None

\* names.iter().filter_map(|n| schema.index_of(n)).collect()
FilterMap(schema, names) ==
    IF names = <<>> THEN <<>>
    ELSE LET h == IndexOf(schema, names[1])
         IN (IF h = None THEN <<>> ELSE <<Unwrap(h)>>) \o FilterMap(schema, Tail(names))

\* a faulty variant of schema_with_projection_pushdown: the selected columns in
\* file order
schema_with_projection_pushdown_file_order(schema, with_columns) ==
    IF with_columns = None THEN schema
    ELSE SelectSeq(schema, LAMBDA name : name \in Range(Unwrap(with_columns)))

\* Reader::schema_with_projection_pushdown: unknown names are filtered out
schema_with_projection_pushdown(schema, with_columns) ==
    IF with_columns = None THEN schema
    ELSE LET idx == FilterMap(schema, Unwrap(with_columns))
         IN [i \in 1..Len(idx) |-> schema[idx[i] + 1]]

\* PolarsReadstat::initialize_reader, the column partition of col_i = 0 with
\* p_col = 1: the first n_cols names of the FULL schema
partition_columns(schema, n_cols) ==
    LET p_col == 1
        cols_per_partition == CeilDiv(n_cols, p_col)
        col_start == 0 * cols_per_partition
        col_end == Min(col_start + cols_per_partition, n_cols)
    IN Take(schema, col_end - col_start)

\* ReadStatBackend::initialize_reader: names to file indices
column_indices(schema, with_columns) ==
    IF with_columns = None THEN None
    ELSE Some(FilterMap(schema, Unwrap(with_columns)))

\* rs_metadata::schema_with_filter_pushdown
schema_with_filter_pushdown(schema, columns_to_read) ==
    IF columns_to_read = None THEN schema
    ELSE LET c == SelectSeq(Unwrap(columns_to_read), LAMBDA col_idx : col_idx < Len(schema))
         IN [i \in 1..Len(c) |-> schema[c[i] + 1]]

\* ReadStatData::map_cols_to_lookup_indices
map_cols_to_lookup_indices(schema, columns_to_read) ==
    IF columns_to_read = None THEN None
    ELSE LET c == Unwrap(columns_to_read)
         IN Some([k \in 1..Len(schema) |->
                    IF (k - 1) \in Range(c)
                    THEN Some((CHOOSE p \in DOMAIN c :
                                  c[p] = k - 1 /\ \A q \in DOMAIN c : c[q] = k - 1 => p <= q) - 1)
                    ELSE None])

----------------------------------------------------------------------------
(* The chunk builder: ReadStatData (rs_data_series.rs), SeriesBuilder       *)
(* (series_builder.rs) and the value callback (cb.rs).  A builder is a     *)
(* name and a vector pre-filled with nulls; the callback fills the slot of *)
(* the row being read.  cur_rows is history: the file rows read into the   *)
(* builders since they were allocated.                                     *)

\* SeriesBuilder::new_with_nulls
new_with_nulls(name, capacity) == [name |-> name, data |-> [i \in 1..capacity |-> Null]]

\* SeriesBuilder::set_*_at_index
set_at_index(data, index, value) == [data EXCEPT ![index + 1] = value]

\* a faulty variant of n_row_builder: every builder gets chunk_size slots
n_row_builder_full(d) == d.chunk_size

\* ReadStatData::allocate_cols, the length of the builders
n_row_builder(d) ==
    Min(d.chunk_size,
        SatSub(SatSub(d.row_end, d.row_start) + 1, d.total_rows_processed))

\* ReadStatData::allocate_cols
allocate_cols(d) ==
    LET sub_schema == schema_with_filter_pushdown(d.schema, d.columns_to_read)
    IN [d EXCEPT !.cols = [i \in 1..Len(sub_schema) |->
                             new_with_nulls(sub_schema[i], n_row_builder(d))]]

\* ReadStatData::cols_to_df: drains the builders into self.df
cols_to_df(d) ==
    [d EXCEPT !.df = Some([cols |-> d.cols, rows |-> d.cur_rows]), !.cols = <<>>]

\* a faulty variant of send_chunk: it seals whether or not rows were read
send_chunk_unguarded(d) ==
    LET d1 == cols_to_df(d)
        d2 == [d1 EXCEPT !.chunk_buffer = Append(@, Unwrap(d1.df)), !.df = None]
        d3 == IF d2.total_rows_processed < d2.rows_to_process
              THEN allocate_cols(d2) ELSE d2
    IN [d3 EXCEPT !.chunk_rows_processed = 0,
                  !.chunk_index = @ + 1,
                  !.cur_rows = <<>>]

\* ReadStatData::send_chunk
send_chunk(d) ==
    IF d.chunk_rows_processed > 0
    THEN LET d1 == cols_to_df(d)
             d2 == [d1 EXCEPT !.chunk_buffer = Append(@, Unwrap(d1.df)), !.df = None]
             d3 == IF d2.total_rows_processed < d2.rows_to_process
                   THEN allocate_cols(d2) ELSE d2
         IN [d3 EXCEPT !.chunk_rows_processed = 0,
                       !.chunk_index = @ + 1,
                       !.cur_rows = <<>>]
    ELSE d

\* ReadStatData::on_row_complete
on_row_complete(d) ==
    LET d1 == [d EXCEPT !.chunk_rows_processed = @ + 1,
                        !.total_rows_processed = @ + 1]
        d2 == IF d1.chunk_rows_processed >= d1.chunk_size THEN send_chunk(d1) ELSE d1
    IN IF d2.total_rows_processed >= d2.rows_to_process THEN send_chunk(d2) ELSE d2

\* ReadStatData::set_row_info: row_end is taken as the last row, inclusive
rows_to_process(row_start, row_end) == SatSub(row_end, row_start) + 1

\* ReadStatData::new(columns_to_read).init(md, row_start, row_end, chunk_size, ..)
init(schema, columns_to_read, row_start, row_end, chunk_size) ==
    LET d0 == [var_count |-> Len(schema),
               schema |-> schema,
               columns_to_read |-> columns_to_read,
               columns_original_index_to_data |-> None,
               cols |-> <<>>,
               df |-> None,
               chunk_size |-> chunk_size,
               chunk_rows_processed |-> 0,
               chunk_index |-> 0,
               row_start |-> row_start,
               row_end |-> row_end,
               rows_to_process |-> rows_to_process(row_start, row_end),
               total_rows_processed |-> 0,
               chunk_buffer |-> <<>>,
               cur_rows |-> <<>>]
        d1 == allocate_cols(d0)
    IN [d1 EXCEPT !.columns_original_index_to_data =
                      map_cols_to_lookup_indices(schema, columns_to_read)]

\* cb::handle_value, the end of every branch: the last variable completes the row
row_done(d, obs_index, var_index) ==
    IF var_index = d.var_count - 1
    THEN on_row_complete([d EXCEPT !.cur_rows = Append(@, obs_index)])
    ELSE d

\* a faulty variant of stored_value: a missing cell is stored as a value
stored_value_sentinel(obs_index, var_index, is_missing) == Val(obs_index, var_index)

\* cb::handle_value, the value stored for a cell the parser delivers
stored_value(obs_index, var_index, is_missing) ==
    IF is_missing THEN Null ELSE Val(obs_index, var_index)

\* cb::handle_value
handle_value(d, obs_index, var_index, is_missing) ==
    LET var_index_assign ==
            IF d.columns_to_read = None THEN Some(var_index)
            ELSE Unwrap(d.columns_original_index_to_data)[var_index + 1]
    IN IF var_index_assign = None
       THEN row_done(d, obs_index, var_index)
       ELSE LET c == Unwrap(var_index_assign) + 1
                d1 == [d EXCEPT !.cols[c].data =
                          set_at_index(@, d.chunk_rows_processed,
                                       stored_value(obs_index, var_index, is_missing))]
            IN row_done(d1, obs_index, var_index)

\* The parser (external): with offset and limit set it delivers the rows
\* [offset, offset + limit) that exist in the file; this is one past the last
ParserEnd(n_file, row_offset, row_limit) == Min(row_offset + row_limit, n_file)

----------------------------------------------------------------------------
(* The partition plan of PolarsReadstat::initialize_reader (stream.rs)      *)

n_chunks_of(n_rows, chunk_size) == CeilDiv(n_rows, chunk_size)
p_row_of(n_rows, chunk_size, threads) == Min(n_chunks_of(n_rows, chunk_size), threads)
chunks_per_partition(n_rows, chunk_size, threads) ==
    CeilDiv(n_chunks_of(n_rows, chunk_size), p_row_of(n_rows, chunk_size, threads))
row_per_chunk(n_rows, chunk_size, threads) ==
    chunks_per_partition(n_rows, chunk_size, threads) * chunk_size

\* the arguments of spawn_worker_thread for row partition row_i
RsRange(n_rows, chunk_size, threads, row_i) ==
    LET row_start == row_i * row_per_chunk(n_rows, chunk_size, threads)
    IN [chunk_start |-> chunks_per_partition(n_rows, chunk_size, threads) * row_i,
        row_start |-> row_start,
        row_end |-> Min(row_start + row_per_chunk(n_rows, chunk_size, threads), n_rows)]

\* the input validation of initialize_reader: Some(error) or None
RsValidate(threads, n_cols, n_rows) ==
    IF threads = 0 THEN Some("Thread count cannot be zero")
    ELSE IF n_cols = 0 THEN Some("No columns to process")
    ELSE IF n_rows = 0 THEN Some("No rows to process")
    ELSE None

\* spawn_worker_thread + ReadStatBackend::initialize_reader: the chunk builder
\* of one worker
RsWorkerData(schema, with_columns, row_start, row_end, size_hint) ==
    init(schema, column_indices(schema, Some(with_columns)), row_start, row_end, size_hint)

----------------------------------------------------------------------------
(* One run at value granularity.  via = "scan": PolarsReadstat with one    *)
(* thread; via = "py": the read_readstat class (readstat_py.rs).           *)
(* cb.sub_schema is the projected schema the open computes.                *)

\* no cancel() yet, the source not dropped; rows_at_cancel is history: the rows
\* returned when cancel() was called
\* md is the backend's cached metadata (its schema), schemas the history of
\* the schema() calls: what each returned and after how many results
CtlInit == [cancelled |-> FALSE, rows_at_cancel |-> 0, drop |-> "no",
            md |-> None, schemas |-> <<>>]

\* projections: None, or up to MaxProj distinct names, known or not
Names == Range(FileCols) \cup {Unknown}
Projections ==
    {None} \cup
    {Some(p) : p \in {q \in UNION {[1..n -> Names] : n \in 1..MaxProj} :
                         \A i, j \in DOMAIN q : i # j => q[i] # q[j]}}

CbInit ==
    /\ cb \in {[pc |-> "new", via |-> via, P |-> P, n_file |-> n, chunk_size |-> c,
                row |-> 0, var |-> 0, d |-> None, err |-> None, sub_schema |-> None,
                row_err |-> None] :
                  via \in {"scan", "py"}, P \in Projections,
                  n \in 0..CbMaxRows, c \in 1..MaxChunk}
    /\ reported = {} /\ ctl = CtlInit
    /\ impl = "off" /\ cfg = None /\ state = None /\ workers = <<>>
    /\ chan = <<>> /\ cpc = "idle" /\ out = <<>> /\ sent = <<>>

\* first next_batch of PolarsReadstat: initialize_reader, one worker
CbOpenScan ==
    /\ cb.pc = "new" /\ cb.via = "scan"
    /\ LET schema == FileCols
           sub_schema == schema_with_projection_pushdown(schema, cb.P)
           n_cols == Len(sub_schema)
           n_rows == cb.n_file
           e == RsValidate(1, n_cols, n_rows)
           rg == RsRange(n_rows, cb.chunk_size, 1, 0)
       IN IF e # None
          THEN cb' = [cb EXCEPT !.pc = "failed", !.err = e, !.sub_schema = Some(sub_schema)]
          ELSE cb' = [cb EXCEPT !.pc = "parsing",
                                !.sub_schema = Some(sub_schema),
                                !.row = rg.row_start,
                                !.d = Some(RsWorkerData(schema, partition_columns(schema, n_cols),
                                                        rg.row_start, rg.row_end, cb.chunk_size))]
    /\ UNCHANGED <<reported, scanVars>>

\* read_readstat: set_with_columns (index_of(..).expect(..)), schema(), then
\* start_streaming
CbOpenPy ==
    /\ cb.pc = "new" /\ cb.via = "py"
    /\ LET schema == FileCols
           known == cb.P = None \/ \A i \in DOMAIN Unwrap(cb.P) : Unwrap(cb.P)[i] \in Range(schema)
       IN IF ~known
          THEN cb' = [cb EXCEPT !.pc = "failed", !.err = Some("schema should be correct")]
          ELSE cb' = [cb EXCEPT !.pc = "parsing",
                                !.sub_schema = Some(schema_with_filter_pushdown(
                                                        schema, column_indices(schema, cb.P))),
                                !.row = 0,
                                !.d = Some(init(schema, column_indices(schema, cb.P),
                                                0, SatSub(cb.n_file, 1), cb.chunk_size))]
    /\ UNCHANGED <<reported, scanVars>>

CbParserEnd == ParserEnd(cb.n_file, Unwrap(cb.d).row_start, Unwrap(cb.d).rows_to_process)

\* the parser calls handle_value for the next cell, in row-major order
CbValue ==
    /\ cb.pc = "parsing" /\ cb.row < CbParserEnd
    /\ \E is_missing \in BOOLEAN :
         /\ cb' = [cb EXCEPT !.d = Some(handle_value(Unwrap(cb.d), cb.row, cb.var, is_missing)),
                             !.var = IF cb.var = Len(FileCols) - 1 THEN 0 ELSE cb.var + 1,
                             !.row = IF cb.var = Len(FileCols) - 1 THEN cb.row + 1 ELSE cb.row]
         /\ reported' = IF is_missing THEN reported \cup {<<cb.row, cb.var>>} ELSE reported
    /\ UNCHANGED scanVars

\* the parser returns: read_data converts what is left in the builders
CbParserReturn ==
    /\ cb.pc = "parsing" /\ cb.row >= CbParserEnd
    /\ cb' = [cb EXCEPT !.pc = "done", !.d = Some(cols_to_df(Unwrap(cb.d)))]
    /\ UNCHANGED <<reported, scanVars>>

CbNext == CbOpenScan \/ CbOpenPy \/ CbValue \/ CbParserReturn

SpecCb == CbInit /\ [][CbNext]_vars

\* Reader::cancel while the parse of that reader runs (main.rs cancels a
\* Reader it is reading from): the flag of the backend is stored; here
\* rows_at_cancel is the row the parser was at.  handle_value has no branch
\* on the flag, so CbValue is the same before and after.
CbCancel ==
    /\ cb.pc = "parsing" /\ ~ctl.cancelled
    /\ ctl' = [ctl EXCEPT !.cancelled = TRUE, !.rows_at_cancel = cb.row]
    /\ UNCHANGED <<cb, reported, impl, cfg, state, workers, chan, cpc, out, sent>>

\* a parse of all columns that may be cancelled
CancelInit == CbInit /\ cb.P = None
CancelNext == CbNext \/ CbCancel
SpecCancel == CancelInit /\ [][CancelNext]_vars

\* cb::handle_value, the branch a cell takes
value_branch(d, var_index, is_missing) ==
    LET var_index_assign ==
            IF d.columns_to_read = None THEN Some(var_index)
            ELSE Unwrap(d.columns_original_index_to_data)[var_index + 1]
    IN IF var_index_assign = None THEN "skipped"
       ELSE IF is_missing THEN "missing" ELSE "typed"

\* cb::handle_value, what it returns when on_row_complete returned Err
ret_on_row_err(branch) == IF branch = "typed" THEN "ABORT" ELSE "OK"

\* ReadStatData::on_row_complete when the cols_to_df of send_chunk returns
\* Err (a cast of into_series fails): the counters are advanced, collect
\* has dropped the drained builders, `?` leaves before anything is pushed,
\* reset or allocated
on_row_complete_err(d) ==
    [d EXCEPT !.chunk_rows_processed = @ + 1,
              !.total_rows_processed = @ + 1,
              !.cols = <<>>]

\* on_row_complete reaches send_chunk for the row being completed
CbSealDue ==
    LET d == Unwrap(cb.d)
    IN \/ d.chunk_rows_processed + 1 >= d.chunk_size
       \/ d.total_rows_processed + 1 >= d.rows_to_process

\* the last cell of a row, and sealing fails.  ABORT makes the parser return
\* READSTAT_ERROR_USER_ABORT, which parse_data turns into the Err of the
\* worker; OK lets the parser go on.  row_err is history: the branch in
\* which on_row_complete failed.
CbSealFails ==
    /\ cb.pc = "parsing" /\ cb.row < CbParserEnd
    /\ cb.var = Len(FileCols) - 1 /\ CbSealDue
    /\ Unwrap(cb.d).cols # <<>>
    /\ \E is_missing \in BOOLEAN :
         LET d == Unwrap(cb.d)
             branch == value_branch(d, cb.var, is_missing)
             d1 == on_row_complete_err([d EXCEPT !.cur_rows = Append(@, cb.row)])
         IN /\ cb' = IF ret_on_row_err(branch) = "ABORT"
                     THEN [cb EXCEPT !.d = Some(d1), !.row_err = Some(branch),
                                     !.pc = "aborted",
                                     !.err = Some("Error when attempting to parse")]
                     ELSE [cb EXCEPT !.d = Some(d1), !.row_err = Some(branch),
                                     !.var = 0, !.row = cb.row + 1]
            /\ reported' = IF is_missing THEN reported \cup {<<cb.row, cb.var>>} ELSE reported
    /\ UNCHANGED scanVars

\* the cell of a column that is read, with the builders drained
CbNoBuilder ==
    /\ cb.pc = "parsing" /\ cb.row < CbParserEnd
    /\ Unwrap(cb.d).cols = <<>>
    /\ value_branch(Unwrap(cb.d), cb.var, FALSE) # "skipped"

\* d.cols[var_index_assign.unwrap()] on the drained vector: index out of
\* bounds, a panic inside the extern "C" callback
CbValuePanics ==
    /\ CbNoBuilder
    /\ cb' = [cb EXCEPT !.pc = "panicked"]
    /\ UNCHANGED <<reported, scanVars>>

\* handle_value on a cell it has a builder for, or skips
CbValueBuilt == ~CbNoBuilder /\ CbValue

\* a parse in which sealing may fail
AbortNext ==
    \/ CbOpenScan \/ CbOpenPy
    \/ CbValueBuilt
    \/ CbSealFails \/ CbValuePanics
    \/ CbParserReturn
SpecAbort == CbInit /\ [][AbortNext]_vars

\* the chunks handed to the consumer so far
CbEmitted == IF cb.d = None THEN <<>> ELSE Unwrap(cb.d).chunk_buffer

----------------------------------------------------------------------------
(* Shared by the two orchestrators: channel, reorder buffer, histories      *)

ScanCols == <<"a">>     \* the file read by the orchestrators has one column

\* a DataFrame holding the given file rows of ScanCols
RowsDf(rows) ==
    [cols |-> [j \in 1..Len(ScanCols) |->
                  [name |-> ScanCols[j],
                   data |-> [i \in 1..Len(rows) |-> Val(rows[i], j - 1)]]],
     rows |-> rows]

\* DataFrame::height
Height(df) == IF df.cols = <<>> THEN 0 ELSE Len(df.cols[1].data)

\* the file rows a DataFrame holds, read off its first column
RowsOf(df) == [i \in 1..Height(df) |-> df.cols[1].data[i].r]

\* HashMap / BTreeMap insert and remove on the reorder buffer
BufInsert(buffer, idx, df) ==
    [k \in DOMAIN buffer \cup {idx} |-> IF k = idx THEN df ELSE buffer[k]]
BufRemove(buffer, idx) == [k \in DOMAIN buffer \ {idx} |-> buffer[k]]
EmptyBuf == [k \in {} |-> 0]

Terminal(o) == o.kind \in {"end", "err", "panic"}
TerminalCount == Cardinality({i \in DOMAIN out : Terminal(out[i])})
OutChunk(idx, df) == [kind |-> "chunk", idx |-> idx, df |-> df]
OutErr == [kind |-> "err"]
OutEnd == [kind |-> "end"]
OutPanic == [kind |-> "panic"]      \* the call panicked (division by zero)

WorkerIds == DOMAIN workers
AllExited == \A w \in WorkerIds : workers[w].wpc = "exited"

\* the consumer may call next_batch again
MayCall == cpc = "idle" /\ TerminalCount <= MaxAfterEnd /\ ctl.drop = "no"

\* the chunks returned so far, and the rows they hold
OutChunks == SelectSeq(out, LAMBDA o : o.kind = "chunk")

RECURSIVE SumHeights(_)
SumHeights(cs) == IF cs = <<>> THEN 0 ELSE Height(Head(cs).df) + SumHeights(Tail(cs))

\* the parser or reader fails when it gets to the corrupt row, if the file has one
HitsCorrupt(lo, hi) == cfg.corrupt # None /\ lo <= Unwrap(cfg.corrupt) /\ Unwrap(cfg.corrupt) < hi

RECURSIVE deliver_row(_, _, _)
\* the parser delivers the cells of row r from variable v on, none missing
deliver_row(d, r, v) ==
    IF v >= d.var_count THEN d
    ELSE deliver_row(handle_value(d, r, v, FALSE), r, v + 1)

----------------------------------------------------------------------------
(* PolarsReadstat (polars_readstat_rs/src/stream.rs) with Reader and       *)
(* ReadStatBackend.  A worker is the thread of spawn_worker_thread and,    *)
(* for the readstat engine, the parser thread of start_streaming that      *)
(* fills the ReadStatStreamer buffer (d.chunk_buffer, is_complete).        *)
(* A worker's cancel_flag is the cancel flag of its own backend; the cpp   *)
(* backend and the bindings have none, which leaves the field FALSE.       *)

\* scan_opts.n_rows, else the row count of the metadata
RsNRows == IF cfg.n_rows # None THEN Unwrap(cfg.n_rows) ELSE cfg.n_file

RsSpawn(row_i) ==
    LET rg == RsRange(RsNRows, cfg.chunk_size, cfg.threads, row_i)
    IN [chunk_start |-> rg.chunk_start, row_start |-> rg.row_start, row_end |-> rg.row_end,
        wpc |-> "init", row_chunk_index |-> 0,
        ppc |-> "idle", pos |-> rg.row_start, is_complete |-> FALSE, d |-> None,
        failed |-> FALSE, cancel_flag |-> FALSE]

\* ReadStatBackend::schema: the metadata is read on the first use and kept
backend_schema(md) == IF md = None THEN Some(FileCols) ELSE md

\* next_batch is called; the first call runs initialize_reader, which reads the
\* schema and divides by chunk_size to get n_chunks before it validates anything
RsCall ==
    /\ impl = "rs" /\ MayCall
    /\ IF state # None
       THEN cpc' = "call" /\ UNCHANGED <<state, workers, out>>
       ELSE IF cfg.chunk_size = 0
       THEN out' = Append(out, OutPanic) /\ UNCHANGED <<state, workers, cpc>>
       ELSE LET n_cols == Len(schema_with_projection_pushdown(ScanCols, None))
                e == RsValidate(cfg.threads, n_cols, RsNRows)
                p_row == p_row_of(RsNRows, cfg.chunk_size, cfg.threads)
            IN IF e # None
               THEN out' = Append(out, OutErr) /\ UNCHANGED <<state, workers, cpc>>
               ELSE /\ workers' = [row_i \in 0..(p_row - 1) |-> RsSpawn(row_i)]
                    /\ state' = Some([buffer |-> EmptyBuf,
                                      next_chunk_to_emit |-> 0,
                                      completed_threads |-> 0,
                                      total_threads |-> 1 * p_row,
                                      thread_errors |-> <<>>])
                    /\ cpc' = "call"
                    /\ out' = out
    /\ ctl' = IF state # None THEN ctl ELSE [ctl EXCEPT !.md = backend_schema(@)]
    /\ UNCHANGED <<cb, reported, impl, cfg, chan, sent>>

\* worker thread: reader_thread.initialize_reader, then the first next() of the
\* readstat backend starts the parser thread (start_streaming)
RsWorkerInit(w) ==
    /\ impl = "rs" /\ w \in WorkerIds /\ workers[w].wpc = "init"
    /\ workers' = [workers EXCEPT ![w].wpc = "loop",
                                  ![w].ppc = IF cfg.engine = "readstat" THEN "parsing" ELSE "idle",
                                  ![w].d = Some(RsWorkerData(ScanCols, partition_columns(ScanCols, Len(ScanCols)),
                                                             workers[w].row_start, workers[w].row_end,
                                                             cfg.chunk_size))]
    /\ UNCHANGED <<cbVars, impl, cfg, state, chan, cpc, out, sent>>

RsParserEnd(w) ==
    ParserEnd(cfg.n_file, Unwrap(workers[w].d).row_start, Unwrap(workers[w].d).rows_to_process)

\* parser thread: the parser delivers one row to handle_value
RsParseRow(w) ==
    /\ impl = "rs" /\ w \in WorkerIds /\ workers[w].ppc = "parsing"
    /\ workers[w].pos < RsParserEnd(w)
    /\ ~HitsCorrupt(workers[w].pos, workers[w].pos + 1)
    /\ workers' = [workers EXCEPT ![w].d = Some(deliver_row(Unwrap(@), workers[w].pos, 0)),
                                  ![w].pos = @ + 1]
    /\ UNCHANGED <<cbVars, impl, cfg, state, chan, cpc, out, sent>>

\* parser thread: read_data returns, Ok or Err (the error is only logged);
\* is_complete is set and the consumer side notified
RsParseReturn(w) ==
    /\ impl = "rs" /\ w \in WorkerIds /\ workers[w].ppc = "parsing"
    /\ \/ workers[w].pos >= RsParserEnd(w)
       \/ HitsCorrupt(workers[w].pos, workers[w].pos + 1)
    /\ workers' = [workers EXCEPT
                     ![w].d = IF workers[w].pos >= RsParserEnd(w) THEN Some(cols_to_df(Unwrap(@))) ELSE @,
                     ![w].ppc = "done",
                     ![w].is_complete = TRUE,
                     ![w].failed = workers[w].pos < RsParserEnd(w)]
    /\ UNCHANGED <<cbVars, impl, cfg, state, chan, cpc, out, sent>>

RsData(w, df) ==
    [kind |-> "Data", w |-> w, idx |-> workers[w].chunk_start + workers[w].row_chunk_index, df |-> df]

\* worker thread, readstat engine: one reader_thread.next() through
\* ReadStatStreamer::next, and the send that follows it; when the thread
\* returns its Reader is dropped, and ReadStatBackend::drop sets the cancel flag
RsWorkerNext(w) ==
    /\ impl = "rs" /\ cfg.engine = "readstat"
    /\ w \in WorkerIds /\ workers[w].wpc = "loop"
    /\ LET d == Unwrap(workers[w].d)
       IN IF d.chunk_buffer # <<>>
          THEN /\ chan' = Append(chan, RsData(w, Head(d.chunk_buffer)))
               /\ sent' = Append(sent, RsData(w, Head(d.chunk_buffer)))
               /\ workers' = [workers EXCEPT ![w].d = Some([d EXCEPT !.chunk_buffer = Tail(@)]),
                                             ![w].row_chunk_index = @ + 1]
          ELSE /\ workers[w].is_complete
               /\ chan' = Append(chan, [kind |-> "ThreadComplete", w |-> w])
               /\ workers' = [workers EXCEPT ![w].wpc = "exited", ![w].cancel_flag = TRUE]
               /\ sent' = sent
    /\ UNCHANGED <<cbVars, impl, cfg, state, cpc, out>>

\* worker thread, cpp engine: one reader_thread.next() on the batch iterator
\* over [row_start, row_end), and the send that follows it
RsCppNext(w) ==
    /\ impl = "rs" /\ cfg.engine = "cpp"
    /\ w \in WorkerIds /\ workers[w].wpc = "loop"
    /\ LET lo == workers[w].pos
           hi == Min(lo + cfg.chunk_size, Min(workers[w].row_end, cfg.n_file))
       IN IF lo >= hi
          THEN /\ chan' = Append(chan, [kind |-> "ThreadComplete", w |-> w])
               /\ workers' = [workers EXCEPT ![w].wpc = "exited"]
               /\ sent' = sent
          ELSE IF HitsCorrupt(lo, hi)
          THEN /\ chan' = Append(chan, [kind |-> "ThreadError", w |-> w])
               /\ workers' = [workers EXCEPT ![w].wpc = "exited", ![w].failed = TRUE]
               /\ sent' = sent
          ELSE /\ chan' = Append(chan, RsData(w, RowsDf(Iota(lo, hi))))
               /\ sent' = Append(sent, RsData(w, RowsDf(Iota(lo, hi))))
               /\ workers' = [workers EXCEPT ![w].pos = hi, ![w].row_chunk_index = @ + 1]
    /\ UNCHANGED <<cbVars, impl, cfg, state, cpc, out>>

\* next_batch: the chunk to return now, if the buffer holds it (p_col = 1, so
\* an entry of the buffer is complete as soon as it exists)
RsTake(s) ==
    IF s.next_chunk_to_emit \in DOMAIN s.buffer THEN Some(s.next_chunk_to_emit) ELSE None

\* next_batch: what a received message does to the scan state
RsReceive(s, m) ==
    IF m.kind = "Data" THEN [s EXCEPT !.buffer = BufInsert(@, m.idx, m.df)]
    ELSE IF m.kind = "ThreadComplete" THEN [s EXCEPT !.completed_threads = @ + 1]
    ELSE [s EXCEPT !.thread_errors = Append(@, m.w), !.completed_threads = @ + 1]

\* next_batch: one iteration of its loop (a recv timeout changes nothing)
RsStep ==
    /\ impl = "rs" /\ cpc = "call"
    /\ LET s == Unwrap(state)
       IN IF s.thread_errors # <<>>
          THEN /\ out' = Append(out, OutErr) /\ cpc' = "idle"
               /\ UNCHANGED <<state, chan>>
          ELSE IF RsTake(s) # None
          THEN /\ out' = Append(out, OutChunk(Unwrap(RsTake(s)), s.buffer[Unwrap(RsTake(s))]))
               /\ state' = Some([s EXCEPT !.buffer = BufRemove(@, Unwrap(RsTake(s))),
                                          !.next_chunk_to_emit = @ + 1])
               /\ cpc' = "idle" /\ chan' = chan
          ELSE IF s.completed_threads = s.total_threads
          THEN /\ out' = Append(out, OutEnd) /\ cpc' = "idle"
               /\ UNCHANGED <<state, chan>>
          ELSE IF chan # <<>>
          THEN /\ state' = Some(RsReceive(s, Head(chan)))
               /\ chan' = Tail(chan)
               /\ UNCHANGED <<out, cpc>>
          ELSE /\ AllExited
               /\ out' = Append(out, OutEnd) /\ cpc' = "idle"
               /\ UNCHANGED <<state, chan>>
    /\ UNCHANGED <<cbVars, impl, cfg, workers, sent>>

\* Reader::cancel on the reader of the scan: it sets the cancel flag of that
\* reader's backend, which is not the flag of any worker's copy
RsCancel ==
    /\ impl = "rs" /\ cpc = "idle" /\ ctl.drop = "no" /\ ~ctl.cancelled
    /\ ctl' = [ctl EXCEPT !.cancelled = TRUE, !.rows_at_cancel = SumHeights(OutChunks)]
    /\ UNCHANGED <<cb, reported, impl, cfg, state, workers, chan, cpc, out, sent>>

\* Drop for PolarsReadstat begins: it goes on to join the thread handles
RsDrop ==
    /\ impl = "rs" /\ cpc = "idle" /\ ctl.drop = "no"
    /\ ctl' = [ctl EXCEPT !.drop = "dropping"]
    /\ UNCHANGED <<cb, reported, impl, cfg, state, workers, chan, cpc, out, sent>>

\* AnonymousScan::schema of PolarsReadstat: the full schema of the reader
RsSchema_rewinding ==
    /\ impl = "rs" /\ cpc = "idle" /\ ctl.drop = "no" /\ Len(ctl.schemas) < MaxSchemaCalls
    /\ LET md == backend_schema(ctl.md)
       IN ctl' = [ctl EXCEPT !.md = md,
                             !.schemas = Append(@, [schema |-> Unwrap(md), at |-> Len(out)])]
    /\ state' = None /\ workers' = <<>>
    /\ UNCHANGED <<cb, reported, impl, cfg, chan, cpc, out, sent>>
RsSchema ==
    /\ impl = "rs" /\ cpc = "idle" /\ ctl.drop = "no" /\ Len(ctl.schemas) < MaxSchemaCalls
    /\ LET md == backend_schema(ctl.md)
       IN ctl' = [ctl EXCEPT !.md = md,
                             !.schemas = Append(@, [schema |-> Unwrap(md), at |-> Len(out)])]
    /\ UNCHANGED <<cb, reported, impl, cfg, state, workers, chan, cpc, out, sent>>

\* Drop for PolarsReadstat returns: every handle.join() has returned
RsDropReturn ==
    /\ impl = "rs" /\ ctl.drop = "dropping" /\ AllExited
    /\ ctl' = [ctl EXCEPT !.drop = "dropped"]
    /\ UNCHANGED <<cb, reported, impl, cfg, state, workers, chan, cpc, out, sent>>

RsConfigs ==
    {[n_file |-> n, n_rows |-> l, chunk_size |-> c, threads |-> t,
      engine |-> e, preserve_order |-> TRUE, corrupt |-> k] :
        n \in 0..MaxRows, l \in {None} \cup {Some(x) : x \in 0..(MaxRows + 1)},
        c \in 0..MaxChunk, t \in 1..MaxThreads,
        e \in {"readstat", "cpp"}, k \in {None} \cup {Some(r) : r \in 0..(MaxRows - 1)}}

ScanInitCommon ==
    /\ cb = [pc |-> "off"] /\ reported = {} /\ ctl = CtlInit
    /\ state = None /\ workers = <<>> /\ chan = <<>>
    /\ cpc = "idle" /\ out = <<>> /\ sent = <<>>

RsInit ==
    /\ impl = "rs"
    /\ cfg \in {c \in RsConfigs : c.corrupt # None => Unwrap(c.corrupt) < c.n_file}
    /\ ScanInitCommon

RsNext ==
    \/ RsCall
    \/ \E w \in 0..(MaxThreads - 1) : RsWorkerInit(w)
    \/ \E w \in 0..(MaxThreads - 1) : RsParseRow(w)
    \/ \E w \in 0..(MaxThreads - 1) : RsParseReturn(w)
    \/ \E w \in 0..(MaxThreads - 1) : RsWorkerNext(w)
    \/ \E w \in 0..(MaxThreads - 1) : RsCppNext(w)
    \/ RsStep
    \/ RsCancel
    \/ RsDrop
    \/ RsDropReturn

SpecRs == RsInit /\ [][RsNext]_vars

----------------------------------------------------------------------------
(* PyPolarsReadstat (polars_readstat_bindings/src/pybindings.rs).  The     *)
(* format readers it drives (Sas7bdatReader, StataReader, SpssReader) are  *)
(* outside the sources: a read of (offset, limit) returns the rows         *)
(* [offset, offset + limit) of the file, or fails on a corrupt row.        *)

WindowChunks == 8

\* new_source
PyBatchSize == Max(cfg.chunk_size, 1)
PyTotalRows == Min(IF cfg.n_rows # None THEN Unwrap(cfg.n_rows) ELSE cfg.n_file, cfg.n_file)
PyTotalChunks == CeilDiv(PyTotalRows, PyBatchSize)

\* start_stream
PyNWorkers == Min(Max(cfg.threads, 1), Max(PyTotalChunks, 1))

\* start_stream: the chunks of worker worker_idx
PyWorkerChunkCount(worker_idx) ==
    (PyTotalChunks \div PyNWorkers)
        + (IF worker_idx < PyTotalChunks % PyNWorkers THEN 1 ELSE 0)

RECURSIVE PyWorkerRanges(_, _)
\* start_stream: worker_ranges, from worker_idx on with next_chunk the first free chunk
PyWorkerRanges(worker_idx, next_chunk) ==
    IF worker_idx >= PyNWorkers THEN <<>>
    ELSE IF PyWorkerChunkCount(worker_idx) = 0 THEN PyWorkerRanges(worker_idx + 1, next_chunk)
    ELSE <<[start_chunk |-> next_chunk, end_chunk |-> next_chunk + PyWorkerChunkCount(worker_idx)]>>
            \o PyWorkerRanges(worker_idx + 1, next_chunk + PyWorkerChunkCount(worker_idx))

PySpawn(rg) ==
    [start_chunk |-> rg.start_chunk, end_chunk |-> rg.end_chunk,
     wpc |-> "read", chunk_idx |-> rg.start_chunk, window_end |-> rg.start_chunk,
     out_idx |-> rg.start_chunk, window_df |-> RowsDf(<<>>), n_sent |-> 0,
     failed |-> FALSE, cancel_flag |-> FALSE]

\* the reader: builder.with_offset(offset).with_limit(take).finish(), when it succeeds
ReadRows(offset, take) == RowsDf(Iota(offset, Min(offset + take, cfg.n_file)))

\* DataFrame::slice
Slice(df, offset, length) == RowsDf(SubSeq(RowsOf(df), offset + 1, offset + length))

\* next(): no chunks at all ends at once; else start_stream on the first call
PyCall ==
    /\ impl = "py" /\ MayCall
    /\ IF PyTotalChunks = 0
       THEN out' = Append(out, OutEnd) /\ UNCHANGED <<state, workers, cpc>>
       ELSE /\ cpc' = "call" /\ out' = out
            /\ IF state # None
               THEN UNCHANGED <<state, workers>>
               ELSE LET ranges == PyWorkerRanges(0, 0)
                    IN /\ workers' = [w \in 0..(Len(ranges) - 1) |-> PySpawn(ranges[w + 1])]
                       /\ state' = Some([buffer |-> EmptyBuf, next_idx |-> 0,
                                         completed |-> 0, total_workers |-> PyNWorkers])
    /\ UNCHANGED <<cbVars, impl, cfg, chan, sent>>

\* worker: the head of the window loop and the read of one window
PyRead(w) ==
    /\ impl = "py" /\ w \in WorkerIds /\ workers[w].wpc = "read"
    /\ LET wk == workers[w]
           window_end == Min(wk.chunk_idx + WindowChunks, wk.end_chunk)
           offset == wk.chunk_idx * PyBatchSize
           window_rows == (window_end - wk.chunk_idx) * PyBatchSize
           take == Min(PyTotalRows - offset, window_rows)
       IN IF wk.chunk_idx >= wk.end_chunk \/ offset >= PyTotalRows
          THEN /\ chan' = Append(chan, [kind |-> "Done"])
               /\ workers' = [workers EXCEPT ![w].wpc = "exited"]
          ELSE IF HitsCorrupt(offset, offset + take)
          THEN /\ chan' = Append(chan, [kind |-> "Err"])
               /\ workers' = [workers EXCEPT ![w].wpc = "exited", ![w].failed = TRUE]
          ELSE /\ chan' = chan
               /\ workers' = [workers EXCEPT ![w].wpc = "send",
                                             ![w].window_end = window_end,
                                             ![w].window_df = ReadRows(offset, take),
                                             ![w].out_idx = wk.chunk_idx,
                                             ![w].n_sent = 0]
    /\ UNCHANGED <<cbVars, impl, cfg, state, cpc, out, sent>>

\* worker: one iteration of the loop that slices the window into chunks and
\* sends them, or the end of that loop
PySend(w) ==
    /\ impl = "py" /\ w \in WorkerIds /\ workers[w].wpc = "send"
    /\ LET wk == workers[w]
           local_offset == (wk.out_idx - wk.chunk_idx) * PyBatchSize
           local_take == Min(PyBatchSize, Height(wk.window_df) - local_offset)
           m == [kind |-> "Data", w |-> w, idx |-> wk.out_idx,
                 df |-> Slice(wk.window_df, local_offset, local_take)]
       IN IF wk.out_idx < wk.window_end /\ local_offset < Height(wk.window_df)
          THEN /\ chan' = Append(chan, m)
               /\ sent' = Append(sent, m)
               /\ workers' = [workers EXCEPT ![w].out_idx = @ + 1, ![w].n_sent = @ + 1]
          ELSE IF wk.n_sent = 0
          THEN /\ chan' = Append(chan, [kind |-> "Done"])
               /\ workers' = [workers EXCEPT ![w].wpc = "exited"]
               /\ sent' = sent
          ELSE /\ workers' = [workers EXCEPT ![w].chunk_idx = wk.window_end, ![w].wpc = "read"]
               /\ UNCHANGED <<chan, sent>>
    /\ UNCHANGED <<cbVars, impl, cfg, state, cpc, out>>

\* a faulty variant of PyAllDone: one Done is enough
PyAllDone_first(s) == s.completed >= 1

\* next_batch: every worker has reported Done
PyAllDone(s) == s.completed = s.total_workers

\* a faulty variant of PyTake: the buffered chunk of greatest index
PyTake_greatest(s) ==
    IF DOMAIN s.buffer # {}
    THEN Some(CHOOSE k \in DOMAIN s.buffer : \A j \in DOMAIN s.buffer : j <= k)
    ELSE None

\* next_batch, ordered: the chunk to return now, if the buffer holds it
PyTake(s) == IF s.next_idx \in DOMAIN s.buffer THEN Some(s.next_idx) ELSE None

\* next_batch: one iteration of its loop, for either ordering mode
PyStep ==
    /\ impl = "py" /\ cpc = "call"
    /\ LET s == Unwrap(state)
           m == Head(chan)
       IN IF cfg.preserve_order /\ PyTake(s) # None
          THEN /\ out' = Append(out, OutChunk(Unwrap(PyTake(s)), s.buffer[Unwrap(PyTake(s))]))
               /\ state' = Some([s EXCEPT !.buffer = BufRemove(@, Unwrap(PyTake(s))),
                                          !.next_idx = @ + 1])
               /\ cpc' = "idle" /\ chan' = chan
          ELSE IF PyAllDone(s)
          THEN /\ out' = Append(out, OutEnd) /\ cpc' = "idle"
               /\ UNCHANGED <<state, chan>>
          ELSE IF chan = <<>>
          THEN /\ AllExited
               /\ out' = Append(out, OutEnd) /\ cpc' = "idle"
               /\ UNCHANGED <<state, chan>>
          ELSE /\ chan' = Tail(chan)
               /\ IF m.kind = "Data" /\ cfg.preserve_order
                  THEN /\ state' = Some([s EXCEPT !.buffer = BufInsert(@, m.idx, m.df)])
                       /\ UNCHANGED <<out, cpc>>
                  ELSE IF m.kind = "Data"
                  THEN /\ out' = Append(out, OutChunk(m.idx, m.df)) /\ cpc' = "idle"
                       /\ state' = state
                  ELSE IF m.kind = "Done"
                  THEN /\ state' = Some([s EXCEPT !.completed = @ + 1])
                       /\ UNCHANGED <<out, cpc>>
                  ELSE /\ out' = Append(out, OutErr) /\ cpc' = "idle"
                       /\ state' = state
    /\ UNCHANGED <<cbVars, impl, cfg, workers, sent>>

\* Drop for PyPolarsReadstat begins: it goes on to join the handles
PyDrop ==
    /\ impl = "py" /\ cpc = "idle" /\ ctl.drop = "no"
    /\ ctl' = [ctl EXCEPT !.drop = "dropping"]
    /\ UNCHANGED <<cb, reported, impl, cfg, state, workers, chan, cpc, out, sent>>

\* readstat_schema(path, opts): the schema of the file, read again on every call
readstat_schema == FileCols

\* PyPolarsReadstat::schema without compression: no field of self is written
PySchema ==
    /\ impl = "py" /\ cpc = "idle" /\ ctl.drop = "no" /\ Len(ctl.schemas) < MaxSchemaCalls
    /\ ctl' = [ctl EXCEPT !.schemas = Append(@, [schema |-> readstat_schema, at |-> Len(out)])]
    /\ UNCHANGED <<cb, reported, impl, cfg, state, workers, chan, cpc, out, sent>>

\* Drop for PyPolarsReadstat returns: every handle.join() has returned
PyDropReturn ==
    /\ impl = "py" /\ ctl.drop = "dropping" /\ AllExited
    /\ ctl' = [ctl EXCEPT !.drop = "dropped"]
    /\ UNCHANGED <<cb, reported, impl, cfg, state, workers, chan, cpc, out, sent>>

PyConfigs ==
    {[n_file |-> n, n_rows |-> l, chunk_size |-> c, threads |-> t,
      engine |-> "rs", preserve_order |-> o, corrupt |-> k] :
        n \in 0..MaxRows, l \in {None} \cup {Some(x) : x \in 0..(MaxRows + 1)},
        c \in 0..MaxChunk, t \in 1..MaxThreads,
        o \in BOOLEAN, k \in {None} \cup {Some(r) : r \in 0..(MaxRows - 1)}}

PyInit ==
    /\ impl = "py"
    /\ cfg \in {c \in PyConfigs : c.corrupt # None => Unwrap(c.corrupt) < c.n_file}
    /\ ScanInitCommon

PyNext ==
    \/ PyCall
    \/ \E w \in 0..(MaxThreads - 1) : PyRead(w)
    \/ \E w \in 0..(MaxThreads - 1) : PySend(w)
    \/ PyStep
    \/ PyDrop
    \/ PyDropReturn

SpecPy == PyInit /\ [][PyNext]_vars

\* The plans alone: the first next_batch / next() of either orchestrator,
\* which spawns the workers, with a thread budget up to PlanMaxThreads.
PlanConfigs ==
    {[n_file |-> n, n_rows |-> l, chunk_size |-> c, threads |-> t,
      engine |-> "cpp", preserve_order |-> TRUE, corrupt |-> None] :
        n \in 0..MaxRows, l \in {None} \cup {Some(x) : x \in 0..MaxRows},
        c \in 0..MaxChunk, t \in 1..PlanMaxThreads}

PlanInit ==
    /\ impl \in {"rs", "py"}
    /\ cfg \in PlanConfigs
    /\ ScanInitCommon

PlanNext == RsCall \/ PyCall

SpecPlan == PlanInit /\ [][PlanNext]_vars

----------------------------------------------------------------------------
(* The sequential sources: read_readstat of polars_readstat/src/lib.rs      *)
(* (impl = "lib") and of polars_readstat_rs/src/lib.rs (impl = "lib_rs").  *)
(* Every next() reads one slice (n_rows_read, size_hint) of the file with  *)
(* read_chunk / read_chunks_parallel, which are outside the sources: like  *)
(* ReadRows they return the rows [offset, offset + limit) the file has.    *)
(* cfg.chunk_size is size_hint.                                            *)

MaxLibCalls == 6     \* next() calls of one sequential source

\* new_source: n_rows, clamped to the file by lib_rs only
LibNRows ==
    LET n_rows == IF cfg.n_rows # None THEN Unwrap(cfg.n_rows) ELSE cfg.n_file
    IN IF impl = "lib_rs" THEN Min(n_rows, cfg.n_file) ELSE n_rows

\* next: the limit handed to the reader
LibRowsToRead(s) ==
    IF impl = "lib_rs" THEN Min(cfg.chunk_size, s.n_rows - s.n_rows_read) ELSE cfg.chunk_size

\* next
LibCall ==
    /\ impl \in {"lib", "lib_rs"} /\ MayCall /\ Len(out) < MaxLibCalls
    /\ LET s == Unwrap(state)
       IN IF s.n_rows > 0 /\ s.n_rows_read < s.n_rows
          THEN /\ out' = Append(out, OutChunk(Len(out), ReadRows(s.n_rows_read, LibRowsToRead(s))))
               /\ state' = Some([s EXCEPT !.n_rows_read = @ + cfg.chunk_size])
          ELSE /\ out' = Append(out, OutEnd)
               /\ state' = state
    /\ UNCHANGED <<cbVars, impl, cfg, workers, chan, cpc, sent>>

LibConfigs ==
    {[n_file |-> n, n_rows |-> l, chunk_size |-> c, threads |-> 1,
      engine |-> "readstat", preserve_order |-> TRUE, corrupt |-> None] :
        n \in 0..MaxRows, l \in {None} \cup {Some(x) : x \in 0..(MaxRows + 1)},
        c \in 0..MaxChunk}

LibInit ==
    /\ impl \in {"lib", "lib_rs"}
    /\ cfg \in LibConfigs
    /\ state = Some([n_rows |-> LibNRows, n_rows_read |-> 0])
    /\ cb = [pc |-> "off"] /\ reported = {} /\ ctl = CtlInit
    /\ workers = <<>> /\ chan = <<>>
    /\ cpc = "idle" /\ out = <<>> /\ sent = <<>>

LibNext == LibCall

SpecLib == LibInit /\ [][LibNext]_vars

----------------------------------------------------------------------------
(* The schema of the metadata: ReadStatMetadata::initialize_schema gives    *)
(* every variable its dtype from var_type and var_format_class.             *)

ReadStatVarType == {"String", "Int8", "Int16", "Int32", "Float", "Double", "StringRef", "Unknown"}
ReadStatVarFormatClass == {"Date", "DateTime", "Time"}
Extensions == {"sas7bdat", "dta", "sav"}

\* match_var_format gives a class to sas7bdat and dta files only
FormatClassesOf(extension) ==
    IF extension \in {"sas7bdat", "dta"}
    THEN {None} \cup {Some(f) : f \in ReadStatVarFormatClass}
    ELSE {None}

check_date_type(dt, format) ==
    CASE format = Some("Date")     -> "Date"
      [] format = Some("DateTime") -> "Datetime_ms"
      [] format = Some("Time")     -> "Time"
      [] format = None             -> dt

\* the match on vm.var_type in initialize_schema
var_dt(vm) ==
    CASE vm.var_type \in {"String", "StringRef", "Unknown"} -> "String"
      [] vm.var_type = "Int8"   -> "Int8"
      [] vm.var_type = "Int16"  -> "Int16"
      [] vm.var_type = "Int32"  -> check_date_type("Int32", vm.var_format_class)
      [] vm.var_type = "Float"  -> check_date_type("Float32", vm.var_format_class)
      [] vm.var_type = "Double" -> check_date_type("Float64", vm.var_format_class)

initialize_schema(md_vars) == [i \in DOMAIN md_vars |-> var_dt(md_vars[i])]

\* the metadata of a file of one or two variables, read but without its schema
MdInit ==
    /\ \E extension \in Extensions :
         LET Vars == {[var_type |-> t, var_format_class |-> f] :
                         t \in ReadStatVarType, f \in FormatClassesOf(extension)}
         IN cb \in {[pc |-> "md", extension |-> extension, vars |-> v, schema |-> None] :
                       v \in UNION {[1..n -> Vars] : n \in 1..MaxVars}}
    /\ impl = "md" /\ cfg = None /\ reported = {} /\ ctl = CtlInit
    /\ state = None /\ workers = <<>> /\ chan = <<>>
    /\ cpc = "idle" /\ out = <<>> /\ sent = <<>>

MdInitializeSchema ==
    /\ impl = "md" /\ cb.schema = None
    /\ cb' = [cb EXCEPT !.schema = Some(initialize_schema(cb.vars))]
    /\ UNCHANGED <<reported, scanVars>>

MdNext == MdInitializeSchema

SpecMd == MdInit /\ [][MdNext]_vars

----------------------------------------------------------------------------
(* The value callback on one cell: handle_variable classifies the display   *)
(* format, initialize_schema gives the dtype, the column of that dtype      *)
(* takes the cell through the get_value_* function of its kind.  Values of  *)
(* 64 bits are pairs: Big(hi, lo) is hi * 10^6 + lo with 0 <= lo < 10^6.    *)

Mega == 1000000
Big(hi, lo) == [hi |-> hi, lo |-> lo]
BigOfInt(n) == Big(n \div Mega, n % Mega)
BigSub(a, b) ==
    IF a.lo >= b.lo THEN Big(a.hi - b.hi, a.lo - b.lo)
    ELSE Big(a.hi - b.hi - 1, a.lo + Mega - b.lo)

I32Max == 2147483647
I32Min == (-2147483647) - 1
InI32(a) == /\ a.hi >= -2148 /\ a.hi <= 2147
            /\ (a.hi = -2148 => a.lo >= 516352)
            /\ (a.hi = 2147 => a.lo <= 483647)

\* the integer of a pair within 32 bits
BigToInt(a) == IF a.hi < 0 THEN (a.hi + 1) * Mega + (a.lo - Mega) ELSE a.hi * Mega + a.lo

DAY_SHIFT_SAS_STATA == 3653
DAY_SHIFT_SPSS == 141428
SEC_SHIFT_SAS_STATA_MS == Big(315619, 200000)     \* 315619200 * SEC_MILLISECOND
SEC_SHIFT_SPSS_MS == Big(12219379, 200000)        \* 12219379200 * SEC_MILLISECOND

\* the display formats of the run and what the regular expressions of
\* match_var_format_sas and match_var_format_stata make of them
SasFormats == {"DATE9", "DATETIME20", "TIME8", "BEST12"}
StataFormats == {"%td", "%tc", "%tcHH:MM:SS", "%9.0g"}
SpssFormats == {"DATE11", "DATETIME20", "TIME8", "F8.2"}

match_var_format_sas(v) ==
    CASE v = "DATETIME20" -> Some("DateTime")
      [] v = "DATE9"      -> Some("Date")
      [] v = "TIME8"      -> Some("Time")
      [] OTHER            -> None

match_var_format_stata(v) ==
    CASE v = "%tcHH:MM:SS" -> Some("Time")
      [] v = "%tc"         -> Some("DateTime")
      [] v = "%td"         -> Some("Date")
      [] OTHER             -> None

match_var_format(v, extension) ==
    IF extension = "sas7bdat" THEN match_var_format_sas(v)
    ELSE IF extension = "dta" THEN match_var_format_stata(v)
    ELSE None

\* ReadStatData::read_data: the Extensions of the path's extension
ExtensionOf(extension) ==
    CASE extension = "sas7bdat" -> "sas7bdat"
      [] extension = "dta" -> "dta"
      [] extension \in {"sav", "zsav"} -> "sav"
      [] OTHER -> "NotSet"

\* the results readstat_int32_value can give for a numeric cell: the value,
\* and for a double outside the 32 bits what the conversion of the build gives
readstat_int32_value(raw) ==
    IF InI32(raw) THEN {BigToInt(raw)} ELSE {I32Min, I32Max}

\* the outcome of a get_value_* call: a value, or a panic in the callback
Ok(b) == [panic |-> FALSE, v |-> b]
Panic == [panic |-> TRUE, v |-> Big(0, 0)]

\* a - b on i32 with b > 0: a panic where overflow is checked, else wrapped
i32_sub(a, b) ==
    IF a >= I32Min + b THEN {Ok(BigOfInt(a - b))}
    ELSE {Panic, Ok(BigOfInt(((a + (I32Max - b + 1)) + I32Max) + 1))}

get_value_date32(raw, ext) ==
    UNION {CASE ext \in {"sas7bdat", "dta"} -> i32_sub(value, DAY_SHIFT_SAS_STATA)
             [] ext = "sav" -> i32_sub(value, DAY_SHIFT_SPSS)
             [] OTHER -> {Ok(BigOfInt(value))} : value \in readstat_int32_value(raw)}

get_value_time64(raw, ext) ==
    {IF ext \in {"sas7bdat", "dta", "sav"} THEN Ok(Big(value, 0))    \* value * SEC_MICROSECOND
     ELSE Ok(BigOfInt(value)) : value \in readstat_int32_value(raw)}

get_value_datetime64(raw, ext) ==
    CASE ext \in {"sas7bdat", "dta"} -> {Ok(BigSub(raw, SEC_SHIFT_SAS_STATA_MS))}
      [] ext = "sav" -> {Ok(BigSub(raw, SEC_SHIFT_SPSS_MS))}
      [] OTHER -> {Ok(raw)}

\* the column a dtype of the schema gets
typed_column(dtype) ==
    CASE dtype = "Date" -> "DateColumn"
      [] dtype = "Time" -> "TimeColumn"
      [] dtype = "Datetime_ms" -> "DateTimeColumn"
      [] dtype = "Int32" -> "I32Column"
      [] dtype = "Float64" -> "F64Column"

\* what handle_value pushes to the column for one cell
pushed_values(column, is_missing, raw, ext) ==
    IF is_missing THEN {None}
    ELSE {Some(x) : x \in
            CASE column = "I32Column" -> {Ok(BigOfInt(value)) : value \in readstat_int32_value(raw)}
              [] column = "F64Column" -> {Ok(raw)}   \* 14 decimals keep a whole number
              [] column = "DateColumn" -> get_value_date32(raw, ext)
              [] column = "TimeColumn" -> get_value_time64(raw, ext)
              [] column = "DateTimeColumn" -> get_value_datetime64(raw, ext)}

FormatsOf(extension) ==
    CASE extension = "sas7bdat" -> SasFormats
      [] extension = "dta" -> StataFormats
      [] OTHER -> SpssFormats

RawValues ==
    {BigOfInt(n) : n \in {I32Min, I32Min + DAY_SHIFT_SAS_STATA - 1, I32Min + DAY_SHIFT_SAS_STATA,
                          -3653, 0, 1, 3653, I32Max}}
    \cup {Big(10000, 0), Big(315619, 200000), Big(12219379, 200000), Big(12219379, 260000)}

ValVarMetadata == [var_type |-> cb.var_type,
                   var_format_class |-> match_var_format(cb.var_format, cb.extension)]
ValColumn == typed_column(var_dt(ValVarMetadata))

\* one numeric cell of a file: its variable, its raw value, nothing pushed yet
ValInit ==
    /\ \E extension \in {"sas7bdat", "dta", "sav", "zsav"} :
         cb \in {[pc |-> "val", extension |-> extension, var_type |-> t, var_format |-> f,
                  is_missing |-> m, raw |-> r, pushed |-> None] :
                    t \in {"Int32", "Double"}, f \in FormatsOf(extension),
                    m \in BOOLEAN, r \in RawValues}
    /\ cb.var_type = "Int32" => InI32(cb.raw)
    /\ impl = "val" /\ cfg = None /\ reported = {} /\ ctl = CtlInit
    /\ state = None /\ workers = <<>> /\ chan = <<>>
    /\ cpc = "idle" /\ out = <<>> /\ sent = <<>>

ValHandleValue ==
    /\ impl = "val" /\ cb.pushed = None
    /\ \E x \in pushed_values(ValColumn, cb.is_missing, cb.raw, ExtensionOf(cb.extension)) :
         cb' = [cb EXCEPT !.pushed = Some([column |-> ValColumn, value |-> x])]
    /\ UNCHANGED <<reported, scanVars>>

ValNext == ValHandleValue

SpecVal == ValInit /\ [][ValNext]_vars

----------------------------------------------------------------------------
(* The capability flags of the AnonymousScan implementations: the planner   *)
(* asks a facade for them, in any order and any number of times.            *)

Facades == {"polars_readstat_rs::PolarsReadstat", "streaming::PolarsReadstat", "CppSasScan"}
Flags == {"predicate", "projection", "slice"}

allows_predicate_pushdown(facade) == FALSE
allows_projection_pushdown(facade) == TRUE
allows_slice_pushdown(facade) == facade # "CppSasScan"

FacadeInit ==
    /\ cb \in {[pc |-> "facade", facade |-> f] : f \in Facades}
    /\ impl = "facade" /\ cfg = None /\ reported = {} /\ ctl = CtlInit
    /\ state = None /\ workers = <<>> /\ chan = <<>>
    /\ cpc = "idle" /\ out = <<>> /\ sent = <<>>

FacadeQuery(flag) ==
    /\ impl = "facade" /\ Len(out) < MaxQueries
    /\ out' = Append(out, [kind |-> flag,
                           allowed |-> CASE flag = "predicate" -> allows_predicate_pushdown(cb.facade)
                                         [] flag = "projection" -> allows_projection_pushdown(cb.facade)
                                         [] flag = "slice" -> allows_slice_pushdown(cb.facade)])
    /\ UNCHANGED <<cbVars, impl, cfg, state, workers, chan, cpc, sent>>

FacadeNext == \E flag \in Flags : FacadeQuery(flag)

SpecFacade == FacadeInit /\ [][FacadeNext]_vars

----------------------------------------------------------------------------
(* The partition planner: calculate_partition_strategy (streaming crate)    *)

\* usize, 31 bits wide here.  An overflowing + or - panics in a build with
\* overflow checks (None) and wraps in a build without them.
UsizeMax == 2147483647
usize_add(a, b, overflow_checks) ==
    IF a <= UsizeMax - b THEN Some(a + b)
    ELSE IF overflow_checks THEN None
    ELSE Some((a - (UsizeMax - b)) - 1)
usize_sub(a, b, overflow_checks) ==
    IF a >= b THEN Some(a - b)
    ELSE IF overflow_checks THEN None
    ELSE Some((UsizeMax - (b - a)) + 1)

\* (total_rows + chunk_size - 1) / chunk_size
num_chunks_of(total_rows, chunk_size, overflow_checks) ==
    LET sum == usize_add(total_rows, chunk_size, overflow_checks)
        less == IF sum = None THEN None ELSE usize_sub(Unwrap(sum), 1, overflow_checks)
    IN IF less = None THEN None ELSE Some(Unwrap(less) \div chunk_size)

\* the column partitions of a row partition with threads_per_row_partition threads
col_partitions_of(threads_per_row_partition, total_cols) ==
    Min(threads_per_row_partition, total_cols)

\* the for loop of find_optimal_partitions, from row_partitions on
RECURSIVE partition_loop(_, _, _, _)
partition_loop(row_partitions, max_row_partitions, total_cols, max_threads) ==
    IF row_partitions > max_row_partitions THEN None
    ELSE LET threads_per_row_partition == max_threads \div row_partitions
         IN IF threads_per_row_partition = 0 THEN None
            ELSE IF total_cols >= 2 * threads_per_row_partition
            THEN Some(<<row_partitions, col_partitions_of(threads_per_row_partition, total_cols)>>)
            ELSE partition_loop(row_partitions + 1, max_row_partitions, total_cols, max_threads)

find_optimal_partitions(total_cols, max_threads, num_chunks) ==
    LET max_row_partitions == Min(max_threads, num_chunks)
        found == partition_loop(1, max_row_partitions, total_cols, max_threads)
    IN IF total_cols >= 2 * max_threads THEN <<1, Min(max_threads, total_cols)>>
       ELSE IF total_cols = 1 THEN <<Min(max_threads, num_chunks), 1>>
       ELSE IF found # None THEN Unwrap(found)
       ELSE LET row_partitions == Min(max_row_partitions, total_cols)
                col_partitions == Min(Max(1, max_threads \div row_partitions), total_cols)
            IN <<row_partitions, col_partitions>>

StrategyPanic == [panic |-> TRUE, row_partitions |-> 0, col_partitions |-> 0, total_readers |-> 0]

calculate_partition_strategy(chunk_size, total_rows, total_cols, max_threads, overflow_checks) ==
    IF chunk_size = 0 \/ total_rows = 0 \/ total_cols = 0 \/ max_threads = 0
    THEN StrategyPanic
    ELSE IF num_chunks_of(total_rows, chunk_size, overflow_checks) = None
    THEN StrategyPanic
    ELSE LET num_chunks == Unwrap(num_chunks_of(total_rows, chunk_size, overflow_checks))
             max_useful_partitions == num_chunks * total_cols
             effective_max_threads == Min(max_threads, max_useful_partitions)
             rc == find_optimal_partitions(total_cols, effective_max_threads, num_chunks)
         IN [panic |-> FALSE, row_partitions |-> rc[1], col_partitions |-> rc[2],
             total_readers |-> rc[1] * rc[2]]

StrategyInit ==
    /\ cb \in {[pc |-> "strategy", chunk_size |-> c, total_rows |-> r, total_cols |-> k,
                max_threads |-> t, overflow_checks |-> o, strategy |-> None] :
                  c \in (0..StratMaxChunk) \cup {UsizeMax}, r \in 0..StratMaxRows,
                  k \in 0..StratMaxCols, t \in 0..StratMaxThreads, o \in BOOLEAN}
    /\ impl = "strategy" /\ cfg = None /\ reported = {} /\ ctl = CtlInit
    /\ state = None /\ workers = <<>> /\ chan = <<>>
    /\ cpc = "idle" /\ out = <<>> /\ sent = <<>>

StrategyCalculate ==
    /\ impl = "strategy" /\ cb.strategy = None
    /\ cb' = [cb EXCEPT !.strategy = Some(calculate_partition_strategy(
                  cb.chunk_size, cb.total_rows, cb.total_cols, cb.max_threads,
                  cb.overflow_checks))]
    /\ UNCHANGED <<reported, scanVars>>

StrategyNext == StrategyCalculate

SpecStrategy == StrategyInit /\ [][StrategyNext]_vars

----------------------------------------------------------------------------
(* PolarsReadstat of the streaming crate (streaming/src/stream.rs),         *)
(* impl = "st".  Its next_batch calls initialize_reader on the first call,  *)
(* and initialize_reader locks self.reader, keeps the guard, and locks      *)
(* self.reader again for the schema.  std::sync::Mutex::lock on a mutex the *)
(* thread already holds does not return: it deadlocks or panics.  After a   *)
(* panic the mutex is poisoned and lock().unwrap() panics at once.          *)

\* the mutex operations of a first next_batch, in program order, up to the
\* point where the scan state is set
Lock(m) == [op |-> "lock", m |-> m]
Unlock(m) == [op |-> "unlock", m |-> m]

\* streaming crate: next_batch locks scan_state and drops the guard, then
\* initialize_reader locks reader (guard kept to the end of the function) and
\* locks reader again for the schema; the operations after that are left out
StInitLocks ==
    <<Lock("scan_state"), Unlock("scan_state"), Lock("reader"), Lock("reader")>>

\* polars_readstat_rs: the reader is locked inside a block, again for each
\* copy_for_reading, and scan_state is locked after the guard of next_batch
\* was dropped
RsInitLocks ==
    <<Lock("scan_state"), Unlock("scan_state"), Lock("reader"), Unlock("reader"),
      Lock("p_col"), Unlock("p_col"), Lock("p_row"), Unlock("p_row"),
      Lock("thread_handle"), Unlock("thread_handle"), Lock("reader"), Unlock("reader"),
      Lock("scan_state"), Unlock("scan_state"), Lock("scan_state")>>

\* the mutexes the thread holds when it comes to operation i
HeldBefore(ops, i) ==
    {ops[j].m : j \in {j \in 1..(i - 1) :
        /\ ops[j].op = "lock"
        /\ \A k \in (j + 1)..(i - 1) : ops[k] # Unlock(ops[j].m)}}

\* std::sync::Mutex::lock on a mutex the thread holds: the thread locks itself out
SelfRelock(ops) ==
    \E i \in DOMAIN ops : ops[i].op = "lock" /\ ops[i].m \in HeldBefore(ops, i)

\* self.reader was poisoned by a panic of an earlier call
StPoisoned == \E i \in DOMAIN out : out[i].kind = "panic"

\* next_batch: scan_state is None, so initialize_reader runs; cpc = "blocked"
\* is the thread waiting for the mutex it holds itself
StCall ==
    /\ impl = "st" /\ MayCall
    /\ SelfRelock(StInitLocks)
    /\ \/ /\ ~StPoisoned
          /\ cpc' = "blocked" /\ out' = out
       \/ /\ out' = Append(out, OutPanic) /\ cpc' = cpc
    /\ UNCHANGED <<cbVars, impl, cfg, state, workers, chan, sent>>

StInit ==
    /\ impl = "st"
    /\ cfg \in {c \in RsConfigs : c.corrupt # None => Unwrap(c.corrupt) < c.n_file}
    /\ ScanInitCommon

StNext == StCall

SpecSt == StInit /\ [][StNext]_vars

----------------------------------------------------------------------------
(* ReadStatStreamer (readstat/src/stream.rs) and its producer thread        *)
(* (start_streaming), impl = "wake", at the granularity of their mutex and  *)
(* condvar operations.  chan is the chunks vector, guarded by the chunks    *)
(* mutex; the consumer holds that mutex from the entry of next() until it   *)
(* returns or waits.  is_complete has a mutex of its own.  A spurious       *)
(* wakeup of Condvar::wait is allowed by std but never promised, so none is *)
(* modelled.                                                                *)

\* the consumer holds the chunks mutex
WakeChunksLocked == cb.cons \in {"check_chunks", "check_complete", "wait_entry"}

\* next(): self.chunks.lock(), or the wait returning with the mutex re-acquired
WakeLock ==
    /\ impl = "wake"
    /\ \/ cb.cons = "idle" /\ Len(out) < MaxWakeCalls
       \/ cb.cons = "woken"
    /\ cb' = [cb EXCEPT !.cons = "check_chunks"]
    /\ UNCHANGED <<reported, ctl, impl, cfg, state, workers, chan, cpc, out, sent>>

\* a faulty variant of WakeCheckChunks: the chunk pushed last is returned
WakeCheckChunks_pop ==
    /\ impl = "wake" /\ cb.cons = "check_chunks"
    /\ IF chan # <<>>
       THEN /\ out' = Append(out, OutChunk(chan[Len(chan)], RowsDf(<<>>)))
            /\ chan' = SubSeq(chan, 1, Len(chan) - 1)
            /\ cb' = [cb EXCEPT !.cons = "idle"]
       ELSE /\ cb' = [cb EXCEPT !.cons = "check_complete"]
            /\ UNCHANGED <<out, chan>>
    /\ UNCHANGED <<reported, ctl, impl, cfg, state, workers, cpc, sent>>

\* next(): if !chunks.is_empty() { return Some(chunks.remove(0)) }
WakeCheckChunks ==
    /\ impl = "wake" /\ cb.cons = "check_chunks"
    /\ IF chan # <<>>
       THEN /\ out' = Append(out, OutChunk(Head(chan), RowsDf(<<>>)))
            /\ chan' = Tail(chan)
            /\ cb' = [cb EXCEPT !.cons = "idle"]
       ELSE /\ cb' = [cb EXCEPT !.cons = "check_complete"]
            /\ UNCHANGED <<out, chan>>
    /\ UNCHANGED <<reported, ctl, impl, cfg, state, workers, cpc, sent>>

\* next(): if *self.is_complete.lock().unwrap() { return None }; the guard of
\* is_complete is dropped at the end of the condition
WakeCheckComplete ==
    /\ impl = "wake" /\ cb.cons = "check_complete"
    /\ IF cb.is_complete
       THEN /\ out' = Append(out, OutEnd)
            /\ cb' = [cb EXCEPT !.cons = "idle"]
       ELSE /\ cb' = [cb EXCEPT !.cons = "wait_entry"]
            /\ out' = out
    /\ UNCHANGED <<reported, ctl, impl, cfg, state, workers, chan, cpc, sent>>

\* next(): self.condvar.wait(chunks), which releases the chunks mutex and
\* blocks in one step
WakeWait ==
    /\ impl = "wake" /\ cb.cons = "wait_entry"
    /\ cb' = [cb EXCEPT !.cons = "waiting"]
    /\ UNCHANGED <<reported, ctl, impl, cfg, state, workers, chan, cpc, out, sent>>

\* Condvar::notify_one / notify_all with one consumer: a waiting consumer is
\* woken, a notification nobody waits for is lost
notify(cons) == IF cons = "waiting" THEN "woken" ELSE cons

\* producer, send_chunk: self.chunk_buffer.lock().unwrap().push(df)
WakePush ==
    /\ impl = "wake" /\ cb.prod = "parsing" /\ cb.to_send > 0
    /\ ~WakeChunksLocked
    /\ chan' = Append(chan, cb.n_sent)
    /\ cb' = [cb EXCEPT !.prod = "notify_one", !.to_send = @ - 1, !.n_sent = @ + 1]
    /\ UNCHANGED <<reported, ctl, impl, cfg, state, workers, cpc, out, sent>>

\* producer, send_chunk: notifier.notify_one()
WakeNotifyOne ==
    /\ impl = "wake" /\ cb.prod = "notify_one"
    /\ cb' = [cb EXCEPT !.prod = "parsing", !.cons = notify(@)]
    /\ UNCHANGED <<reported, ctl, impl, cfg, state, workers, chan, cpc, out, sent>>

\* producer thread: read_data has returned; *is_complete.lock().unwrap() = true
WakeSetComplete ==
    /\ impl = "wake" /\ cb.prod = "parsing" /\ cb.to_send = 0
    /\ cb' = [cb EXCEPT !.prod = "notify_all", !.is_complete = TRUE]
    /\ UNCHANGED <<reported, ctl, impl, cfg, state, workers, chan, cpc, out, sent>>

\* producer thread: notifier.notify_all(), and the thread ends
WakeNotifyAll ==
    /\ impl = "wake" /\ cb.prod = "notify_all"
    /\ cb' = [cb EXCEPT !.prod = "done", !.cons = notify(@)]
    /\ UNCHANGED <<reported, ctl, impl, cfg, state, workers, chan, cpc, out, sent>>

\* ReadStatStreamer::new and start_streaming: nothing pushed, not complete
WakeInit ==
    /\ cb \in {[pc |-> "wake", cons |-> "idle", prod |-> "parsing", is_complete |-> FALSE,
                to_send |-> n, n_sent |-> 0] : n \in 0..MaxWakeChunks}
    /\ impl = "wake" /\ cfg = None
    /\ reported = {} /\ ctl = CtlInit
    /\ state = None /\ workers = <<>> /\ chan = <<>>
    /\ cpc = "idle" /\ out = <<>> /\ sent = <<>>

WakeNext ==
    \/ WakeLock
    \/ WakeCheckChunks
    \/ WakeCheckComplete
    \/ WakeWait
    \/ WakePush
    \/ WakeNotifyOne
    \/ WakeSetComplete
    \/ WakeNotifyAll

SpecWake == WakeInit /\ [][WakeNext]_vars

\* either orchestrator
Init == RsInit \/ PyInit
Next == RsNext \/ PyNext
Spec == Init /\ [][Next]_vars

\* a scan whose consumer also asks for the schema, at any time between calls
SchemaNext ==
    \/ RsCall
    \/ \E w \in 0..(MaxThreads - 1) : RsWorkerInit(w)
    \/ \E w \in 0..(MaxThreads - 1) : RsParseRow(w)
    \/ \E w \in 0..(MaxThreads - 1) : RsParseReturn(w)
    \/ \E w \in 0..(MaxThreads - 1) : RsWorkerNext(w)
    \/ \E w \in 0..(MaxThreads - 1) : RsCppNext(w)
    \/ RsStep
    \/ RsSchema
    \/ PyCall
    \/ \E w \in 0..(MaxThreads - 1) : PyRead(w)
    \/ \E w \in 0..(MaxThreads - 1) : PySend(w)
    \/ PyStep
    \/ PySchema
\* the whole of a sound file is scanned
SchemaInit == Init /\ cfg.corrupt = None /\ cfg.n_rows = None
SpecSchema == SchemaInit /\ [][SchemaNext]_vars

----------------------------------------------------------------------------
(* Properties of the chunk builder (checked under SpecCb) *)

CbChunkSize == cb.chunk_size
CbColVar(col) == Unwrap(IndexOf(FileCols, col.name))

CbChunkNames(df) == [j \in DOMAIN df.cols |-> df.cols[j].name]
CbProjectionKnown == cb.P # None /\ Range(Unwrap(cb.P)) \subseteq Range(FileCols)

\* C9: for a projection of existing names every emitted chunk has exactly the
\* named columns, in the order of the projection.
C9_ChunkColumnsAreProjection ==
    CbProjectionKnown =>
        \A k \in DOMAIN CbEmitted : CbChunkNames(CbEmitted[k]) = Unwrap(cb.P)

\* C10: a projection naming a column the file does not have fails at open,
\* before any batch: the run never gets to parse.
C10_UnknownColumnIsError ==
    (cb.P # None /\ Unknown \in Range(Unwrap(cb.P))) =>
        /\ cb.pc \in {"new", "failed"}
        /\ CbEmitted = <<>>

\* the names of projection P the file has, in the order of P
CbKnownNames == SelectSeq(Unwrap(cb.P), LAMBDA name : name \in Range(FileCols))

\* C11: the projected schema is the full schema in file order when the
\* projection is None, and else the named columns of the file in the order of
\* the projection argument.
C11_ProjectedSchemaInProjectionOrder ==
    cb.sub_schema # None =>
        Unwrap(cb.sub_schema) = (IF cb.P = None THEN FileCols ELSE CbKnownNames)

\* the schema was projected on two existing names given against file order
C11_Witness ==
    /\ cb.sub_schema # None /\ cb.P = Some(<<"z", "a">>)
    /\ Unwrap(cb.sub_schema) = <<"z", "a">>

\* the rows the parser has delivered, and those of them after the last full batch
CbParsedRows == cb.row - Unwrap(cb.d).row_start
CbUnsealedRows == CbParsedRows % CbChunkSize

\* C28: when the parser has returned with k > 0 rows delivered after the last
\* full batch, the last chunk handed to the consumer holds exactly those k rows.
C28_FinalPartialBatch ==
    (cb.pc = "done" /\ CbUnsealedRows > 0) =>
        /\ CbEmitted # <<>>
        /\ CbEmitted[Len(CbEmitted)].rows = Iota(cb.row - CbUnsealedRows, cb.row)

\* C33: the callback sees the cancellation flag on its next invocation and
\* aborts, so a cancelled parse goes on for at most one row: the parser never
\* gets more than one row beyond the row it was at when the flag was set.
C33_CancelStopsWithinOneRow ==
    (cb.pc \in {"parsing", "done"} /\ ctl.cancelled) => cb.row <= ctl.rows_at_cancel + 1

\* the rows of the emitted chunks
CbEmittedRows == UNION {Range(CbEmitted[k].rows) : k \in DOMAIN CbEmitted}

\* C36: the builders are converted once per chunk: every seal emits one chunk
\* that holds rows, no row is in two emitted chunks (a row that fills the chunk
\* and ends the range seals once), and what read_data converts when the parser
\* has returned is not a chunk emitted before and is not emitted.
C36_SealedOncePerChunk ==
    cb.d # None =>
        /\ Unwrap(cb.d).chunk_index = Len(CbEmitted)
        /\ \A k \in DOMAIN CbEmitted : CbEmitted[k].rows # <<>>
        /\ \A k1, k2 \in DOMAIN CbEmitted :
              \A i \in DOMAIN CbEmitted[k1].rows, j \in DOMAIN CbEmitted[k2].rows :
                  (k1 < k2 \/ (k1 = k2 /\ i < j)) => CbEmitted[k1].rows[i] < CbEmitted[k2].rows[j]
        /\ cb.pc = "done" =>
              /\ Unwrap(cb.d).df # None
              /\ Range(Unwrap(Unwrap(cb.d).df).rows) \cap CbEmittedRows = {}
              /\ \A k \in DOMAIN CbEmitted : CbEmitted[k] # Unwrap(Unwrap(cb.d).df)

\* the last row of the range has filled a chunk: both tests of on_row_complete
\* held on it, one chunk of chunk_size rows is emitted and the parser has returned
C36_Witness ==
    /\ cb.pc = "done" /\ cb.via = "py" /\ cb.n_file = CbChunkSize /\ CbChunkSize = 2
    /\ Len(CbEmitted) = 1
    /\ Unwrap(cb.d).total_rows_processed = Unwrap(cb.d).rows_to_process
    /\ Len(CbEmitted[1].rows) = CbChunkSize

\* C37: when on_row_complete fails inside the value callback, whatever the
\* branch of the cell (skipped column, missing value, typed value), the
\* worker's error is set and the parse is aborted: it never goes on.
C37_AbortOnEveryPath ==
    cb.row_err # None => cb.pc = "aborted" /\ cb.err # None

----------------------------------------------------------------------------
(* Properties of the orchestrators *)

OutKinds  == {out[i].kind : i \in DOMAIN out}
Ordered   == impl = "rs" \/ (impl = "py" /\ cfg.preserve_order)
SomeWorkerFailed == \E w \in WorkerIds : workers[w].failed
\* the stream has ended, no parse has failed and no error was returned
Drained   == "end" \in OutKinds /\ "err" \notin OutKinds /\ ~SomeWorkerFailed

\* rows the stream is to deliver: min(row_count - offset, limit) with offset = 0
ExpectedRows == IF cfg.n_rows = None THEN cfg.n_file ELSE Min(cfg.n_file, Unwrap(cfg.n_rows))

\* C1: in ordered mode the k-th chunk returned by next_batch is the chunk of
\* global index k - 1, whatever the order of arrival on the channel.
C1_OrderedEmission ==
    Ordered => \A i \in DOMAIN OutChunks : OutChunks[i].idx = i - 1

\* two chunks arrived on the channel out of file order and both were returned
C1_Witness ==
    /\ Ordered
    /\ \E i, j \in DOMAIN sent :
          /\ i < j /\ sent[i].idx > sent[j].idx
          /\ Len(OutChunks) > sent[i].idx

\* C2: a stream drained to "end" without an error has returned
\* min(row_count - offset, limit) rows in total.
C2_SumOfChunkLengths ==
    Drained => SumHeights(OutChunks) = ExpectedRows

\* C3: in ordered mode a drained stream has returned the chunks of the
\* single-threaded read: chunk i holds the rows [i * chunk_size, (i+1) * chunk_size)
\* of the slice, whatever the thread count.
C3_SameAsSingleThreaded ==
    (Ordered /\ Drained) =>
        /\ Len(OutChunks) = CeilDiv(ExpectedRows, cfg.chunk_size)
        /\ \A i \in DOMAIN OutChunks :
              RowsOf(OutChunks[i].df) =
                  Iota((i - 1) * cfg.chunk_size, Min(i * cfg.chunk_size, ExpectedRows))

\* C4: when the parse of a worker has failed, next_batch does not return "end"
\* unless it has returned an error before.
C4_ParseFailurePropagated ==
    \A i \in DOMAIN out :
        (out[i].kind = "end" /\ SomeWorkerFailed) => \E j \in 1..(i - 1) : out[j].kind = "err"

\* C5: once next_batch has returned the failure of a worker, every later call
\* returns "end".
C5_FailureReturnedOnce ==
    SomeWorkerFailed =>
        \A i, j \in DOMAIN out : (i < j /\ out[i].kind = "err") => out[j].kind = "end"

OutData == [i \in DOMAIN OutChunks |-> [idx |-> OutChunks[i].idx, df |-> OutChunks[i].df]]
SentData == [i \in DOMAIN sent |-> [idx |-> sent[i].idx, df |-> sent[i].df]]

\* C6: in unordered mode the chunks returned are the chunks sent, each once and
\* in channel order, and once "end" was returned every worker has exited, the
\* channel is empty and every chunk sent has been returned.
C6_UnorderedExactlyOnce ==
    (impl = "py" /\ ~cfg.preserve_order) =>
        /\ Len(OutData) <= Len(SentData)
        /\ OutData = SubSeq(SentData, 1, Len(OutData))
        /\ "end" \in OutKinds => (AllExited /\ chan = <<>> /\ Len(OutData) = Len(SentData))

\* an unordered stream of two workers, both of which sent chunks, has ended
C6_Witness ==
    /\ impl = "py" /\ ~cfg.preserve_order
    /\ "end" \in OutKinds
    /\ \E i, j \in DOMAIN sent : sent[i].w # sent[j].w
    /\ Len(OutData) = Len(SentData)

\* C12: with a row limit N a stream drained without failure has delivered
\* min(row_count, N) rows: never more than the limit, and exactly the rows the
\* file has when the limit is larger.
C12_LimitBoundedByFile ==
    (cfg # None /\ cfg.n_rows # None /\ cfg.chunk_size > 0 /\ Drained) =>
        SumHeights(OutChunks) = Min(cfg.n_file, Unwrap(cfg.n_rows))

RECURSIVE RowsIn(_)
\* the file rows of a sequence of chunks or Data messages, concatenated
RowsIn(cs) == IF cs = <<>> THEN <<>> ELSE RowsOf(Head(cs).df) \o RowsIn(Tail(cs))

\* the rows worker w has sent, in the order sent
RowsSentBy(w) == RowsIn(SelectSeq(sent, LAMBDA m : m.w = w))

\* consecutive file rows: no row twice, none left out
Contiguous(r) == \A i \in 1..(Len(r) - 1) : r[i + 1] = r[i] + 1

\* C13: a read of (offset = a, limit = b) followed by a read of
\* (offset = a + b, limit = c) yields consecutive rows, without overlap or gap,
\* as one read of (a, b + c) does: for the successive slices of a sequential
\* source, and for the slices [row_start, row_end) of two neighbouring workers.
C13_SliceComposition ==
    /\ impl \in {"lib", "lib_rs"} => Contiguous(RowsIn(OutChunks))
    /\ impl = "rs" =>
          \A w \in WorkerIds :
              ((w + 1) \in WorkerIds
                 /\ workers[w].wpc = "exited" /\ workers[w + 1].wpc = "exited"
                 /\ ~workers[w].failed /\ ~workers[w + 1].failed)
              => Contiguous(RowsSentBy(w) \o RowsSentBy(w + 1))

\* C14: when the orchestrator is dropped before the end of the stream, the
\* drop sets cancellation for every worker, and it returns only after every
\* worker thread has exited.
C14_DropCancelsAndJoins ==
    /\ (ctl.drop # "no" /\ "end" \notin OutKinds) =>
            \A w \in WorkerIds : workers[w].cancel_flag
    /\ ctl.drop = "dropped" => AllExited

\* C15: after cancel() at most thread_budget * chunk_size further rows are
\* returned by next_batch.
C15_CancelBoundsFurtherRows ==
    ctl.cancelled =>
        SumHeights(OutChunks) - ctl.rows_at_cancel <= cfg.threads * cfg.chunk_size

\* the Data messages sent and not yet received
Pending == SelectSeq(chan, LAMBDA m : m.kind = "Data")

\* C16: the channel is bounded: the chunks sent and not yet received number
\* at most a small multiple (here twice) of the thread budget.
C16_ChannelBounded ==
    impl \in {"rs", "py"} => Len(Pending) <= 2 * cfg.threads

\* C17: when the requested row range holds no row (an empty file, or a limit
\* of 0), every next_batch returns "end": no chunk, and no error.
C17_ZeroRowsZeroBatches ==
    (cfg # None /\ ExpectedRows = 0) => \A i \in DOMAIN out : out[i].kind = "end"

\* C18: a chunk_size of 0 is rejected: no worker or chunk builder is ever
\* constructed, and no call returns a chunk or "end".
C18_ZeroChunkSizeRejected ==
    (cfg # None /\ cfg.chunk_size = 0) =>
        /\ workers = <<>>
        /\ \A i \in DOMAIN out : out[i].kind \in {"err", "panic"}

StreamBuffer == Unwrap(state).buffer
AllCompleted ==
    IF impl = "rs" THEN Unwrap(state).completed_threads = Unwrap(state).total_threads
    ELSE Unwrap(state).completed = Unwrap(state).total_workers
JustEnded == /\ state # None /\ cpc = "idle"
             /\ out # <<>> /\ out[Len(out)].kind = "end"

\* C25: in ordered mode, when next_batch has returned "end" every worker has
\* completed and the reorder buffer is empty: no received chunk is left in it.
\* Stated of the streams in which no parse failed and no error was returned.
C25_EndWithEmptyBuffer ==
    (impl \in {"rs", "py"} /\ Ordered /\ JustEnded /\ Drained) =>
        /\ AllCompleted
        /\ StreamBuffer = EmptyBuf

\* C26: chunk indices are globally unique: no two Data messages of one stream,
\* from the same worker or from different ones, carry the same chunk index.
C26_ChunkIndicesUnique ==
    impl \in {"rs", "py"} =>
        \A i, j \in DOMAIN sent : i # j => sent[i].idx # sent[j].idx

\* the plan of the partition planner for worker i: chunks_per_worker =
\* ceil(n_chunks / p_row), chunks [i * chunks_per_worker,
\* min((i + 1) * chunks_per_worker, n_chunks)), and the rows of those chunks
PlannedRange(i, total_rows, chunk_size, p_row) ==
    LET n_chunks == CeilDiv(total_rows, chunk_size)
        chunks_per_worker == CeilDiv(n_chunks, p_row)
        start_chunk == i * chunks_per_worker
        end_chunk == Min((i + 1) * chunks_per_worker, n_chunks)
        offset == start_chunk * chunk_size
    IN [start_chunk |-> start_chunk, end_chunk |-> end_chunk, offset |-> offset,
        limit |-> Min((end_chunk - start_chunk) * chunk_size, total_rows - offset)]

\* the rows worker w has sent, as a set
RowSetOf(w) == Range(RowsSentBy(w))

\* every worker has run to its end: none failed, nothing was cancelled or dropped
AllRanToEnd ==
    /\ WorkerIds # {} /\ AllExited /\ ~SomeWorkerFailed
    /\ ~ctl.cancelled /\ ctl.drop = "no"

\* C27: worker i is given the chunks and rows of PlannedRange, and once every
\* worker has run to its end the rows the workers have read are pairwise
\* disjoint and are together exactly the requested rows.
C27_WorkerRanges ==
    /\ impl = "rs" =>
          \A w \in WorkerIds :
              LET pr == PlannedRange(w, RsNRows, cfg.chunk_size, Cardinality(WorkerIds))
              IN /\ workers[w].chunk_start = pr.start_chunk
                 /\ workers[w].row_start = pr.offset
                 /\ workers[w].row_end = pr.offset + pr.limit
    /\ impl = "py" =>
          \A w \in WorkerIds :
              LET pr == PlannedRange(w, PyTotalRows, PyBatchSize, Cardinality(WorkerIds))
              IN /\ workers[w].start_chunk = pr.start_chunk
                 /\ workers[w].end_chunk = pr.end_chunk
    /\ (impl \in {"rs", "py"} /\ AllRanToEnd) =>
          /\ \A v, w \in WorkerIds : v # w => RowSetOf(v) \cap RowSetOf(w) = {}
          /\ UNION {RowSetOf(w) : w \in WorkerIds} = 0..(ExpectedRows - 1)

\* a next_batch call is in progress
InCall == cpc \in {"call", "blocked"}

\* the loop of next_batch can take a step: return, or receive a message
ConsumerCanStep == ENABLED RsStep \/ ENABLED PyStep

\* a worker thread that has not returned
SomeWorkerLive == \E w \in WorkerIds : workers[w].wpc # "exited"

\* C29: next_batch never waits or loops for something no live worker can
\* still send: while a call is in progress either its loop can step (a message
\* is there, or it returns) or a worker thread is still running.
C29_NextBatchNeverStuck ==
    InCall => ConsumerCanStep \/ SomeWorkerLive

\* the messages with which a worker ends: done (ThreadComplete, Done) or
\* failed (ThreadError, Err)
TerminalKinds == {"ThreadComplete", "ThreadError", "Done", "Err"}
ChanTerminals == Cardinality({i \in DOMAIN chan : chan[i].kind \in TerminalKinds})

\* the consumer's counter of finished workers, and the number it is compared with
CompletedWorkers ==
    IF impl = "rs" THEN Unwrap(state).completed_threads ELSE Unwrap(state).completed
TotalWorkers ==
    IF impl = "rs" THEN Unwrap(state).total_threads ELSE Unwrap(state).total_workers

\* failure messages the consumer has taken without counting them: the bindings
\* return each Err they receive, and count only Done
FailuresTaken ==
    IF impl = "py" THEN Cardinality({i \in DOMAIN out : out[i].kind = "err"}) ELSE 0

ExitedWorkers == Cardinality({w \in WorkerIds : workers[w].wpc = "exited"})

\* every exited worker has sent one terminal message, no other worker has sent
\* one, and no Data message of a worker follows its terminal message
OneTerminalPerWorker ==
    /\ ChanTerminals + CompletedWorkers + FailuresTaken = ExitedWorkers
    /\ \A i, j \in DOMAIN chan :
          (i < j /\ chan[i].kind \in {"ThreadComplete", "ThreadError"} /\ chan[j].kind = "Data")
              => chan[i].w # chan[j].w

\* C31: every worker sends exactly one terminal message, after all of its Data
\* messages; the counter of completed workers never exceeds the number of
\* workers, and equals it once every worker has exited and the channel has
\* been read to its end.
C31_OneTerminalMessage ==
    (impl \in {"rs", "py"} /\ state # None) =>
        /\ OneTerminalPerWorker
        /\ CompletedWorkers <= TotalWorkers
        /\ (AllExited /\ chan = <<>>) => CompletedWorkers = TotalWorkers

\* cancellation has been asked for: cancel() was called, the orchestrator is
\* being dropped, or a worker has failed
CancellationSet == ctl.cancelled \/ ctl.drop # "no" \/ SomeWorkerFailed

\* C32: the cancellation flag is one flag shared by the orchestrator and all
\* workers: once it is set, by a drop, by the failure of a worker or by
\* cancel(), every worker sees it set.
C32_SharedCancelFlag ==
    (impl \in {"rs", "py"} /\ CancellationSet) =>
        \A w \in WorkerIds : workers[w].cancel_flag

\* C34: the one-time initialisation run by the first next_batch never locks
\* a mutex its thread already holds, so the call neither blocks on its own
\* lock nor panics on it.
C34_InitWithoutSelfLock ==
    /\ (impl = "rs" /\ state # None) => ~SelfRelock(RsInitLocks) /\ cpc # "blocked"
    /\ impl = "st" => cpc # "blocked" /\ ~StPoisoned

\* the worker count of the plan: min(thread_budget, n_chunks), and 1 for 0
FallbackPRow(thread_budget, n_chunks) ==
    IF Min(thread_budget, n_chunks) = 0 THEN 1 ELSE Min(thread_budget, n_chunks)

\* C38: the plan has p_row = min(thread_budget, n_chunks) workers with
\* n_chunks = ceil(total_rows / chunk_size), and when that minimum is 0 the
\* planner goes on with one worker instead of failing.
C38_PRowWithFallback ==
    /\ (impl = "rs" /\ state # None) =>
           Unwrap(state).total_threads =
               FallbackPRow(cfg.threads, CeilDiv(RsNRows, cfg.chunk_size))
    /\ (impl = "py" /\ state # None) =>
           Unwrap(state).total_workers =
               FallbackPRow(cfg.threads, CeilDiv(PyTotalRows, PyBatchSize))
    /\ (impl = "rs" /\ cfg.chunk_size > 0 /\ state = None) =>
           \A i \in DOMAIN out : out[i].kind # "err"

\* the first row of the range a worker was spawned for
FirstRow(w) ==
    IF impl = "rs" THEN workers[w].row_start ELSE workers[w].start_chunk * PyBatchSize

\* C39: no worker is spawned for an empty range: the first row of every
\* spawned worker lies before total_rows.
C39_NoEmptyRangeWorker ==
    (impl \in {"rs", "py"} /\ state # None) =>
        \A w \in WorkerIds :
            FirstRow(w) < (IF impl = "rs" THEN RsNRows ELSE PyTotalRows)

----------------------------------------------------------------------------
(* Properties of the schema (checked under SpecMd) *)

IntegerTypes == {"Int8", "Int16", "Int32"}

\* C20: a variable of raw type Int8, Int16 or Int32 has that integer dtype in
\* the schema, whatever its format class is.
C20_IntegerKeepsDtype ==
    (cb.pc = "md" /\ cb.schema # None) =>
        \A i \in DOMAIN cb.vars :
            cb.vars[i].var_type \in IntegerTypes => Unwrap(cb.schema)[i] = cb.vars[i].var_type

----------------------------------------------------------------------------
(* Properties of the value callback (checked under SpecVal) *)

\* raw as i32: the value within 32 bits, saturated outside
AsI32(raw) ==
    IF InI32(raw) THEN BigToInt(raw)
    ELSE IF raw.hi < 0 THEN I32Min ELSE I32Max

ValPushed == cb.pc = "val" /\ cb.pushed # None /\ ~cb.is_missing

\* C21: a non-missing cell of a Date column of a SAS or Stata file is emitted
\* as (raw as i32) - 3653 days since 1970-01-01.
C21_SasStataDateShift ==
    (/\ ValPushed
     /\ cb.extension \in {"sas7bdat", "dta"}
     /\ match_var_format(cb.var_format, cb.extension) = Some("Date")) =>
        cb.pushed = Some([column |-> "DateColumn",
                          value |-> Some(Ok(BigSub(BigOfInt(AsI32(cb.raw)), BigOfInt(3653))))])

SpssDateTimeFormats == {"DATETIME20"}

\* C22: a non-missing cell of an SPSS column with a DateTime display format is
\* in a DateTime column and is emitted as (raw as i64) - 12,219,379,200,000 ms.
C22_SpssDateTimeShift ==
    (/\ ValPushed
     /\ cb.extension \in {"sav", "zsav"}
     /\ cb.var_format \in SpssDateTimeFormats) =>
        cb.pushed = Some([column |-> "DateTimeColumn",
                          value |-> Some(Ok(BigSub(cb.raw, Big(12219379, 200000))))])

----------------------------------------------------------------------------
(* Properties of the facades (checked under SpecFacade) *)

\* C23: every facade answers predicate pushdown = false, projection pushdown =
\* true, slice pushdown = true.
C23_CapabilityFlags ==
    cb.pc = "facade" =>
        \A i \in DOMAIN out : out[i].allowed = (out[i].kind \in {"projection", "slice"})

----------------------------------------------------------------------------
(* Properties of the partition planner (checked under SpecStrategy) *)

StrategyPlanned ==
    /\ cb.pc = "strategy" /\ cb.strategy # None
    /\ cb.chunk_size > 0 /\ cb.total_rows > 0 /\ cb.total_cols > 0 /\ cb.max_threads > 0

\* ceil(total_rows / chunk_size), without the sum
StrategyChunks ==
    (cb.total_rows \div cb.chunk_size) + (IF cb.total_rows % cb.chunk_size = 0 THEN 0 ELSE 1)

\* C24: for positive inputs the planner returns total_readers = row_partitions
\* * col_partitions, at least 1 and at most min(max_threads, ceil(total_rows /
\* chunk_size) * total_cols).
C24_ReadersWithinBudget ==
    StrategyPlanned =>
        LET st == Unwrap(cb.strategy)
        IN /\ ~st.panic
           /\ st.total_readers = st.row_partitions * st.col_partitions
           /\ st.total_readers >= 1
           /\ st.total_readers <= Min(cb.max_threads,
                                      StrategyChunks * cb.total_cols)

----------------------------------------------------------------------------
(* Properties of ReadStatStreamer (checked under SpecWake) *)

\* C30: no lost wakeup: once the producer has set is_complete and notified,
\* the consumer is not left in the condvar wait, where nothing would wake it.
C30_NoLostWakeup ==
    (impl = "wake" /\ cb.prod = "done") => cb.cons # "waiting"

\* the chunks next() has returned, by the number the producer gave them
WakeReturned ==
    LET r == SelectSeq(out, LAMBDA o : o.kind = "chunk")
    IN [i \in DOMAIN r |-> r[i].idx]

\* C35: next() returns the chunks in the order the producer pushed them, each
\* once (the chunks returned followed by the chunks still buffered are the
\* chunks pushed, in order), and it returns None only when the producer has
\* completed and nothing is buffered, so no chunk is returned after a None.
C35_PushOrderThenNone ==
    impl = "wake" =>
        /\ WakeReturned \o chan = Iota(0, cb.n_sent)
        /\ \A i \in DOMAIN out :
              out[i].kind = "end" =>
                  /\ cb.is_complete /\ cb.to_send = 0 /\ chan = <<>>
                  /\ \A j \in DOMAIN out : j > i => out[j].kind = "end"

\* the producer has pushed two chunks and finished; next() has returned both,
\* in order, and then None
C35_Witness ==
    /\ impl = "wake" /\ Len(out) = 3
    /\ WakeReturned = <<0, 1>> /\ out[3].kind = "end"
    /\ cb.prod = "done"

----------------------------------------------------------------------------
(* SharedMmap (readstat-sys/src/lib.rs) and its use by PolarsReadstat with   *)
(* the readstat engine and use_mmap, impl = "mmap".  A mapping is the         *)
(* SharedMmapInner behind an Arc: strong is the strong count of the Arc,      *)
(* which unmaps the file when it reaches 0; ref_count is the AtomicUsize      *)
(* kept beside it; c_refs is history, the retains not yet released.  The      *)
(* callers of retain_shared_mmap and release_shared_mmap are outside the      *)
(* sources: they may retain a mapping they were given a pointer to and        *)
(* release what they retained, at any time.                                   *)

\* SharedMmap::new
shared_mmap_new == [ref_count |-> 1, strong |-> 1, c_refs |-> 0, mapped |-> TRUE]

\* AtomicUsize::fetch_sub(1): wraps below 0
fetch_sub_1(n) == IF n = 0 THEN UsizeMax ELSE n - 1

\* Clone for SharedMmap
shared_mmap_clone(m) == [m EXCEPT !.ref_count = @ + 1, !.strong = @ + 1]

\* Drop for SharedMmap, then the drop of its Arc
shared_mmap_drop(m) ==
    [m EXCEPT !.ref_count = fetch_sub_1(@),
              !.strong = @ - 1,
              !.mapped = m.strong > 1]

\* retain_shared_mmap
retain_shared_mmap(m) == [m EXCEPT !.ref_count = @ + 1, !.c_refs = @ + 1]

\* release_shared_mmap: the handle behind the pointer is dropped when the
\* count was 1
release_shared_mmap(m) ==
    LET m1 == [m EXCEPT !.ref_count = fetch_sub_1(@), !.c_refs = @ - 1]
    IN IF m.ref_count = 1 THEN shared_mmap_drop(m1) ELSE m1

\* PolarsReadstat::new: the reader of the source holds the first mapping
MmInit ==
    /\ cb = [pc |-> "mmap", maps |-> <<shared_mmap_new>>, reader |-> TRUE]
    /\ impl = "mmap" /\ cfg = None
    /\ reported = {} /\ ctl = CtlInit
    /\ state = None /\ workers = <<>> /\ chan = <<>>
    /\ cpc = "idle" /\ out = <<>> /\ sent = <<>>

RECURSIVE CloneTimes(_, _)
CloneTimes(m, n) == IF n = 0 THEN m ELSE CloneTimes(shared_mmap_clone(m), n - 1)

\* initialize_reader: copy_for_reading gives the Reader of every worker a
\* clone of the handle of the source (set_mmap)
MmInitializeReader ==
    /\ cb.pc = "mmap" /\ cb.reader /\ workers = <<>>
    /\ \E p_row \in 1..MaxThreads :
         /\ workers' = [w \in 0..(p_row - 1) |->
                           [field |-> TRUE, parser |-> "none", own |-> 0]]
         /\ cb' = [cb EXCEPT !.maps[1] = CloneTimes(@, p_row)]
    /\ UNCHANGED <<reported, ctl, impl, cfg, state, chan, cpc, out, sent>>

\* ReadStatBackend::start_streaming of worker w: a mapping of its own
\* (SharedMmap::new), moved into the parser thread, and the clone read_data
\* is given; own is the mapping the parser of w reads through
MmStartStreaming(w) ==
    /\ cb.pc = "mmap" /\ w \in WorkerIds
    /\ workers[w].field /\ workers[w].parser = "none"
    /\ cb' = [cb EXCEPT !.maps = Append(@, shared_mmap_clone(shared_mmap_new))]
    /\ workers' = [workers EXCEPT ![w].parser = "running", ![w].own = Len(cb.maps) + 1]
    /\ UNCHANGED <<reported, ctl, impl, cfg, state, chan, cpc, out, sent>>

\* the parser thread of w ends: the clone and the handle of the closure drop
MmParserThreadEnd(w) ==
    /\ cb.pc = "mmap" /\ w \in WorkerIds /\ workers[w].parser = "running"
    /\ cb' = [cb EXCEPT !.maps[workers[w].own] = shared_mmap_drop(shared_mmap_drop(@))]
    /\ workers' = [workers EXCEPT ![w].parser = "ended"]
    /\ UNCHANGED <<reported, ctl, impl, cfg, state, chan, cpc, out, sent>>

\* the worker thread of w ends: its Reader drops, and the handle set_mmap
\* stored in it
MmWorkerExit(w) ==
    /\ cb.pc = "mmap" /\ w \in WorkerIds /\ workers[w].field
    /\ cb' = [cb EXCEPT !.maps[1] = shared_mmap_drop(@)]
    /\ workers' = [workers EXCEPT ![w].field = FALSE]
    /\ UNCHANGED <<reported, ctl, impl, cfg, state, chan, cpc, out, sent>>

\* the source is dropped: its reader, and the handle in it
MmDropSource ==
    /\ cb.pc = "mmap" /\ cb.reader
    /\ cb' = [cb EXCEPT !.reader = FALSE, !.maps[1] = shared_mmap_drop(@)]
    /\ UNCHANGED <<reported, scanVars>>

\* retain_shared_mmap on a pointer to a live handle of mapping k
MmRetain(k) ==
    /\ cb.pc = "mmap" /\ k \in DOMAIN cb.maps
    /\ cb.maps[k].mapped /\ cb.maps[k].c_refs < MaxRetains
    /\ cb' = [cb EXCEPT !.maps[k] = retain_shared_mmap(@)]
    /\ UNCHANGED <<reported, scanVars>>

\* release_shared_mmap of a retain, the mapping still there
MmRelease(k) ==
    /\ cb.pc = "mmap" /\ k \in DOMAIN cb.maps
    /\ cb.maps[k].mapped /\ cb.maps[k].c_refs > 0
    /\ cb' = [cb EXCEPT !.maps[k] = release_shared_mmap(@)]
    /\ UNCHANGED <<reported, scanVars>>

\* release_shared_mmap of a retain after the last handle was dropped: the
\* pointer dangles, the read of ref_count is undefined behaviour (it may go
\* unnoticed or crash)
MmReleaseFreed(k) ==
    /\ cb.pc = "mmap" /\ k \in DOMAIN cb.maps
    /\ ~cb.maps[k].mapped /\ cb.maps[k].c_refs > 0
    /\ \E pc \in {"mmap", "crashed"} :
         cb' = [cb EXCEPT !.pc = pc, !.maps[k].c_refs = @ - 1]
    /\ UNCHANGED <<reported, scanVars>>

MmNext ==
    \/ MmInitializeReader
    \/ \E w \in 0..(MaxThreads - 1) : MmStartStreaming(w)
    \/ \E w \in 0..(MaxThreads - 1) : MmParserThreadEnd(w)
    \/ \E w \in 0..(MaxThreads - 1) : MmWorkerExit(w)
    \/ MmDropSource
    \/ \E k \in 1..(MaxThreads + 1) : MmRetain(k)
    \/ \E k \in 1..(MaxThreads + 1) : MmRelease(k)
    \/ \E k \in 1..(MaxThreads + 1) : MmReleaseFreed(k)

SpecMmap == MmInit /\ [][MmNext]_vars

----------------------------------------------------------------------------
(* Properties of the shared mapping (checked under SpecMmap) *)

\* the live SharedMmap handles of mapping k: the one of the source and the
\* ones of the workers' readers for the first mapping, the two of a running
\* parser thread for its own
LiveHandles(k) ==
    (IF k = 1 /\ cb.reader THEN 1 ELSE 0)
    + (IF k = 1 THEN Cardinality({w \in WorkerIds : workers[w].field}) ELSE 0)
    + 2 * Cardinality({w \in WorkerIds : workers[w].own = k /\ workers[w].parser = "running"})

\* C40: with use_mmap one mapping is shared by all workers: every parser
\* reads through the mapping of the source; the reference count of a mapping
\* is the number of its live handles, retained pointers included; and a
\* mapping is released only when that count is zero, never while a parser
\* reads through it or a retain is outstanding.
C40_SharedMmapRefCount ==
    (impl = "mmap" /\ cb.pc = "mmap") =>
        /\ \A w \in WorkerIds : workers[w].own # 0 => workers[w].own = 1
        /\ \A k \in DOMAIN cb.maps :
              /\ cb.maps[k].mapped =>
                    cb.maps[k].ref_count = LiveHandles(k) + cb.maps[k].c_refs
              /\ ~cb.maps[k].mapped =>
                    /\ cb.maps[k].ref_count = 0
                    /\ cb.maps[k].c_refs = 0
                    /\ \A w \in WorkerIds :
                          workers[w].own = k => workers[w].parser # "running"

====
